---------------------------- MODULE Spec2Model ----------------------------
(***************************************************************************)
(* Schema introspection and structural diff engine of database-mcp-python. *)
(*                                                                         *)
(* Python strings are TLA+ strings, taken apart with Len, SubSeq and \o.   *)
(* A Python dict is a function; a key the dict lacks is outside DOMAIN.    *)
(***************************************************************************)
EXTENDS Integers, Sequences, FiniteSets, TLC

(***************************************************************************)
(* Bounds of the model.                                                    *)
(***************************************************************************)
\* number of column names a table structure may use
MaxCols == 2
\* number of times a normalizer is applied in a row to one input
MaxApply == 2

(***************************************************************************)
(* Python values and string methods.                                       *)
(***************************************************************************)
\* Python's None, kept apart from every string the model uses
None == "<None>"

\* bool(x) of a string or None
Truthy(x) == x # None /\ x # ""

\* dict.get(key, default)
Get(d, key, dflt) == IF key \in DOMAIN d THEN d[key] ELSE dflt

\* str.startswith
StartsWith(s, prefix) ==
    Len(s) >= Len(prefix) /\ SubSeq(s, 1, Len(prefix)) = prefix

\* positions at which sub occurs in s
Occurrences(s, sub) ==
    {i \in 1..(Len(s) - Len(sub) + 1) : SubSeq(s, i, i + Len(sub) - 1) = sub}

\* sub in s
Contains(s, sub) == Occurrences(s, sub) # {}

\* str.replace(old, new, 1)
ReplaceFirst(s, old, new) ==
    IF ~Contains(s, old) THEN s
    ELSE LET i == CHOOSE j \in Occurrences(s, old) :
                      \A k \in Occurrences(s, old) : j <= k
         IN  SubSeq(s, 1, i - 1) \o new \o SubSeq(s, i + Len(old), Len(s))

UpperLetters == <<"A", "B", "C", "D", "E", "F", "G", "H", "I", "J", "K", "L", "M",
                  "N", "O", "P", "Q", "R", "S", "T", "U", "V", "W", "X", "Y", "Z">>
LowerLetters == <<"a", "b", "c", "d", "e", "f", "g", "h", "i", "j", "k", "l", "m",
                  "n", "o", "p", "q", "r", "s", "t", "u", "v", "w", "x", "y", "z">>

LowerChar(c) ==
    IF \E i \in 1..26 : UpperLetters[i] = c
    THEN LowerLetters[CHOOSE i \in 1..26 : UpperLetters[i] = c]
    ELSE c

UpperChar(c) ==
    IF \E i \in 1..26 : LowerLetters[i] = c
    THEN UpperLetters[CHOOSE i \in 1..26 : LowerLetters[i] = c]
    ELSE c

RECURSIVE Lower(_)
\* str.lower, one half of the string after the other
Lower(s) ==
    IF Len(s) <= 1 THEN LowerChar(s)
    ELSE Lower(SubSeq(s, 1, Len(s) \div 2))
             \o Lower(SubSeq(s, Len(s) \div 2 + 1, Len(s)))

RECURSIVE Upper(_)
\* str.upper, one half of the string after the other
Upper(s) ==
    IF Len(s) <= 1 THEN UpperChar(s)
    ELSE Upper(SubSeq(s, 1, Len(s) \div 2))
             \o Upper(SubSeq(s, Len(s) \div 2 + 1, Len(s)))

RECURSIVE LStripChars(_, _)
LStripChars(s, chars) ==
    IF Len(s) > 0 /\ SubSeq(s, 1, 1) \in chars
    THEN LStripChars(SubSeq(s, 2, Len(s)), chars)
    ELSE s

RECURSIVE RStripChars(_, _)
RStripChars(s, chars) ==
    IF Len(s) > 0 /\ SubSeq(s, Len(s), Len(s)) \in chars
    THEN RStripChars(SubSeq(s, 1, Len(s) - 1), chars)
    ELSE s

\* str.strip(chars)
StripChars(s, chars) == RStripChars(LStripChars(s, chars), chars)

Whitespace == {" ", "\t", "\n", "\r"}

\* str.strip()
Strip(s) == StripChars(s, Whitespace)

(***************************************************************************)
(* PostgreSQLTools: the type and default normalizer.                       *)
(***************************************************************************)
\* the dict literal of _normalize_type, in insertion order
type_aliases ==
    << <<"int", "integer">>,
       <<"int4", "integer">>,
       <<"int8", "bigint">>,
       <<"int2", "smallint">>,
       <<"varchar", "character varying">>,
       <<"char", "character">>,
       <<"bool", "boolean">>,
       <<"timestamp", "timestamp without time zone">>,
       <<"timestamptz", "timestamp with time zone">> >>

\* one iteration of the loop over type_aliases
ApplyTypeAlias(normalized, alias, canonical) ==
    IF StartsWith(normalized, alias)
    THEN ReplaceFirst(normalized, alias, canonical)
    ELSE normalized

RECURSIVE TypeAliasLoop(_, _)
\* the loop over type_aliases, from entry i on
TypeAliasLoop(normalized, i) ==
    IF i > Len(type_aliases) THEN normalized
    ELSE TypeAliasLoop(
             ApplyTypeAlias(normalized, type_aliases[i][1], type_aliases[i][2]),
             i + 1)

_normalize_type(type_str) == TypeAliasLoop(Strip(Lower(type_str)), 1)

\* the dict literal of _normalize_default, in insertion order
default_aliases ==
    << <<"now()", "CURRENT_TIMESTAMP">>,
       <<"current_timestamp", "CURRENT_TIMESTAMP">>,
       <<"nextval", "SEQUENCE">> >>

RECURSIVE DefaultAliasLoop(_, _)
\* the loop over default_aliases, from entry i on: the first match returns
DefaultAliasLoop(normalized, i) ==
    IF i > Len(default_aliases) THEN normalized
    ELSE IF Contains(Lower(normalized), default_aliases[i][1])
         THEN default_aliases[i][2]
         ELSE DefaultAliasLoop(normalized, i + 1)

_normalize_default(default_str) ==
    IF ~Truthy(default_str) \/ default_str = "NULL" THEN "NULL"
    ELSE DefaultAliasLoop(StripChars(default_str, {"'", "\""}), 1)

_normalize_structure(structure) ==
    [col \in DOMAIN structure |->
        [type     |-> _normalize_type(structure[col].type),
         nullable |-> structure[col].nullable,
         key      |-> Get(structure[col], "key", ""),
         default  |-> _normalize_default(Get(structure[col], "default", "NULL")),
         extra    |-> Get(structure[col], "extra", ""),
         comment  |-> Get(structure[col], "comment", "")]]

(***************************************************************************)
(* The structural differ.                                                  *)
(***************************************************************************)
\* the sequences that enumerate the set S once each: the orders in which a
\* for loop may visit a Python set
Orderings(S) ==
    {order \in [1..Cardinality(S) -> S] :
        \A i, j \in 1..Cardinality(S) : i # j => order[i] # order[j]}

\* ColumnDiffers, were the comment part of the comparison
ColumnDiffers_comparing_comment(my_info, other_info) ==
    \/ my_info.type # other_info.type
    \/ my_info.nullable # other_info.nullable
    \/ Get(my_info, "default", "NULL") # Get(other_info, "default", "NULL")
    \/ Get(my_info, "comment", "") # Get(other_info, "comment", "")

\* the condition under which the loop appends col to different_cols
ColumnDiffers(my_info, other_info) ==
    \/ my_info.type # other_info.type
    \/ my_info.nullable # other_info.nullable
    \/ Get(my_info, "default", "NULL") # Get(other_info, "default", "NULL")

\* compare_columns, were only_in_other all of other's columns
compare_columns_other_unsubtracted(my, other, order) ==
    LET my_cols == DOMAIN my
        other_cols == DOMAIN other
    IN  [only_in_mine   |-> my_cols \ other_cols,
         only_in_other  |-> other_cols,
         different_cols |-> SelectSeq(order,
                                LAMBDA col : ColumnDiffers(my[col], other[col]))]

\* compare_columns, were a differing column appended twice
compare_columns_appending_twice(my, other, order) ==
    LET my_cols == DOMAIN my
        other_cols == DOMAIN other
        differing == SelectSeq(order,
                         LAMBDA col : ColumnDiffers(my[col], other[col]))
    IN  [only_in_mine   |-> my_cols \ other_cols,
         only_in_other  |-> other_cols \ my_cols,
         different_cols |-> differing \o differing]

\* OracleTools.compare_columns; order is the order in which the loop visits
\* common_cols
compare_columns(my, other, order) ==
    LET my_cols == DOMAIN my
        other_cols == DOMAIN other
    IN  [only_in_mine   |-> my_cols \ other_cols,
         only_in_other  |-> other_cols \ my_cols,
         different_cols |-> SelectSeq(order,
                                LAMBDA col : ColumnDiffers(my[col], other[col]))]

\* SQLiteTools.compare_columns
SQLiteTools_compare_columns(my, other, order) ==
    LET my_cols == DOMAIN my
        other_cols == DOMAIN other
    IN  [only_in_mine   |-> my_cols \ other_cols,
         only_in_other  |-> other_cols \ my_cols,
         different_cols |-> SelectSeq(order,
                                LAMBDA col : ColumnDiffers(my[col], other[col]))]

\* CommonDatabaseTools.compare_columns, the differ the subclasses inherit
CommonDatabaseTools_compare_columns(my, other, order) ==
    LET my_cols == DOMAIN my
        other_cols == DOMAIN other
    IN  [only_in_mine   |-> my_cols \ other_cols,
         only_in_other  |-> other_cols \ my_cols,
         different_cols |-> SelectSeq(order,
             LAMBDA col :
                 \/ my[col].type # other[col].type
                 \/ my[col].nullable # other[col].nullable
                 \/ Get(my[col], "default", "NULL") # Get(other[col], "default", "NULL"))]

compare_columns_with_type_normalization(my, other, order) ==
    CommonDatabaseTools_compare_columns(
        _normalize_structure(my), _normalize_structure(other), order)

(***************************************************************************)
(* Alter-statement synthesizers of OracleTools and SQLiteTools.            *)
(***************************************************************************)
\* the DEFAULT clause both tools classes build from col_info.get('default', '')
default_clause(col_info) ==
    LET default_val == Get(col_info, "default", "")
    IN  IF Truthy(default_val) /\ default_val # "NULL"
        THEN " DEFAULT " \o default_val
        ELSE ""

\* generate_add_column_sql of OracleTools, were it to quote the default value
generate_add_column_sql_quoting_default(table_name, col_name, col_info) ==
    LET col_type == col_info.type
        nullable == IF col_info.nullable = "YES" THEN "NULL" ELSE "NOT NULL"
        default_val == Get(col_info, "default", "")
        quoted == IF Truthy(default_val) /\ default_val # "NULL"
                  THEN " DEFAULT '" \o default_val \o "'"
                  ELSE ""
    IN  "ALTER TABLE " \o table_name \o " ADD " \o col_name \o " " \o col_type
            \o " " \o quoted \o " " \o nullable

\* OracleTools.generate_add_column_sql
generate_add_column_sql(table_name, col_name, col_info) ==
    LET col_type == col_info.type
        nullable == IF col_info.nullable = "YES" THEN "NULL" ELSE "NOT NULL"
    IN  "ALTER TABLE " \o table_name \o " ADD " \o col_name \o " " \o col_type
            \o " " \o default_clause(col_info) \o " " \o nullable

\* generate_modify_column_sql of OracleTools, were it to drop the column
generate_modify_column_sql_dropping(table_name, col_name, col_info) ==
    "ALTER TABLE " \o table_name \o " DROP COLUMN " \o col_name

\* OracleTools.generate_modify_column_sql
generate_modify_column_sql(table_name, col_name, col_info) ==
    LET col_type == col_info.type
        nullable == IF col_info.nullable = "YES" THEN "NULL" ELSE "NOT NULL"
    IN  "ALTER TABLE " \o table_name \o " MODIFY " \o col_name \o " " \o col_type
            \o " " \o default_clause(col_info) \o " " \o nullable

\* SQLiteTools.generate_add_column_sql
SQLiteTools_generate_add_column_sql(table_name, col_name, col_info) ==
    LET col_type == col_info.type
        nullable == IF col_info.nullable = "YES" THEN "" ELSE "NOT NULL"
    IN  Strip("ALTER TABLE " \o table_name \o " ADD COLUMN " \o col_name \o " "
                  \o col_type \o default_clause(col_info) \o " " \o nullable)

\* generate_modify_column_sql of SQLiteTools, were it to render the runnable
\* statement of a dialect that has ALTER COLUMN
SQLiteTools_generate_modify_column_sql_runnable(table_name, col_name, col_info) ==
    LET col_type == col_info.type
        nullable == IF col_info.nullable = "YES" THEN "" ELSE "NOT NULL"
    IN  Strip("ALTER TABLE " \o table_name \o " ALTER COLUMN " \o col_name \o " "
                  \o col_type \o default_clause(col_info) \o " " \o nullable)

\* SQLiteTools.generate_modify_column_sql
SQLiteTools_generate_modify_column_sql(table_name, col_name, col_info) ==
    LET col_type == col_info.type
        nullable == IF col_info.nullable = "YES" THEN "" ELSE "NOT NULL"
    IN  Strip("-- SQLite does not support ALTER COLUMN. Manual table recreation required for: "
                  \o col_name \o " " \o col_type \o default_clause(col_info)
                  \o " " \o nullable)

(***************************************************************************)
(* Alter-statement synthesizers of MySQLTools and PostgreSQLTools.         *)
(***************************************************************************)
\* the grave accent MySQL quotes identifiers with; no string of this language
\* can hold that character, so the caret stands for it
Backtick == "^"

\* the DEFAULT fragment of MySQLTools._generate_column_sql, were every
\* default value quoted
MySQLDefault_quoting_every_default(column_info) ==
    LET default_val == Get(column_info, "default", None)
    IN  IF default_val # "NULL" /\ Truthy(default_val)
        THEN " DEFAULT '" \o default_val \o "'"
        ELSE ""

\* the DEFAULT fragment of MySQLTools._generate_column_sql
MySQLDefault(column_info) ==
    LET default_val == Get(column_info, "default", None)
    IN  IF default_val # "NULL" /\ Truthy(default_val)
        THEN IF default_val = "CURRENT_TIMESTAMP"
             THEN " DEFAULT " \o default_val
             ELSE " DEFAULT '" \o default_val \o "'"
        ELSE ""

\* MySQLTools._generate_column_sql
MySQLTools__generate_column_sql(action, table_name, column_name, column_info) ==
    LET sql0 == "ALTER TABLE " \o Backtick \o table_name \o Backtick \o " " \o action
                    \o " " \o Backtick \o column_name \o Backtick \o " " \o column_info.type
        sql1 == sql0 \o (IF column_info.nullable = "NO" THEN " NOT NULL" ELSE " NULL")
        sql2 == sql1 \o MySQLDefault(column_info)
        sql3 == IF Truthy(Get(column_info, "extra", None))
                THEN sql2 \o " " \o column_info.extra
                ELSE sql2
        sql4 == IF Truthy(Get(column_info, "comment", None))
                THEN sql3 \o " COMMENT '" \o column_info.comment \o "'"
                ELSE sql3
    IN  sql4 \o ";"

\* MySQLTools.generate_add_column_sql
MySQLTools_generate_add_column_sql(table_name, column_name, column_info) ==
    MySQLTools__generate_column_sql("ADD COLUMN", table_name, column_name, column_info)

\* MySQLTools.generate_modify_column_sql
MySQLTools_generate_modify_column_sql(table_name, column_name, column_info) ==
    MySQLTools__generate_column_sql("MODIFY COLUMN", table_name, column_name, column_info)

\* '\n'.join(statements)
RECURSIVE JoinLines(_)
JoinLines(statements) ==
    IF statements = <<>> THEN ""
    ELSE IF Len(statements) = 1 THEN statements[1]
    ELSE statements[1] \o "\n" \o JoinLines(Tail(statements))

\* the defaults PostgreSQLTools emits as they are
PostgreSQLKeywordDefaults == {"CURRENT_TIMESTAMP", "now()", "CURRENT_DATE"}

\* the DEFAULT fragment of the PostgreSQLTools synthesizers, were the keyword
\* defaults quoted like every other default
PostgreSQLDefault_quoting_keywords(column_info) ==
    LET default_val == Get(column_info, "default", None)
    IN  IF Truthy(default_val) /\ default_val # "NULL"
        THEN "DEFAULT '" \o default_val \o "'"
        ELSE ""

\* the DEFAULT fragment of the PostgreSQLTools synthesizers, "" when the
\* column has no default to set
PostgreSQLDefault(column_info) ==
    LET default_val == Get(column_info, "default", None)
    IN  IF Truthy(default_val) /\ default_val # "NULL"
        THEN IF default_val \in PostgreSQLKeywordDefaults
             THEN "DEFAULT " \o default_val
             ELSE "DEFAULT '" \o default_val \o "'"
        ELSE ""

\* the COMMENT ON COLUMN statement of the PostgreSQLTools synthesizers
PostgreSQLComment(table_name, column_name, column_info) ==
    "COMMENT ON COLUMN \"" \o table_name \o "\".\"" \o column_name \o "\" IS '"
        \o column_info.comment \o "';"

\* PostgreSQLTools._generate_column_sql
PostgreSQLTools__generate_column_sql(action, table_name, column_name, column_info) ==
    LET sql0 == "ALTER TABLE \"" \o table_name \o "\" " \o action \o " \""
                    \o column_name \o "\" " \o column_info.type
        sql1 == IF column_info.nullable = "NO" THEN sql0 \o " NOT NULL" ELSE sql0
        sql2 == IF PostgreSQLDefault(column_info) # ""
                THEN sql1 \o " " \o PostgreSQLDefault(column_info)
                ELSE sql1
        sql3 == sql2 \o ";"
    IN  IF Truthy(Get(column_info, "comment", None))
        THEN sql3 \o "\n" \o PostgreSQLComment(table_name, column_name, column_info)
        ELSE sql3

\* PostgreSQLTools.generate_add_column_sql
PostgreSQLTools_generate_add_column_sql(table_name, column_name, column_info) ==
    PostgreSQLTools__generate_column_sql("ADD COLUMN", table_name, column_name, column_info)

\* generate_modify_column_sql of PostgreSQLTools, were the default statement
\* appended before the nullability statement
PostgreSQLTools_generate_modify_column_sql_default_first(table_name, column_name, column_info) ==
    LET alter == "ALTER TABLE \"" \o table_name \o "\" ALTER COLUMN \"" \o column_name \o "\" "
        type_stmt == alter \o "TYPE " \o column_info.type \o ";"
        null_stmt == IF column_info.nullable = "NO"
                     THEN alter \o "SET NOT NULL;"
                     ELSE alter \o "DROP NOT NULL;"
        default_stmt == IF PostgreSQLDefault(column_info) # ""
                        THEN alter \o "SET " \o PostgreSQLDefault(column_info) \o ";"
                        ELSE alter \o "DROP DEFAULT;"
        comment_stmts == IF Truthy(Get(column_info, "comment", None))
                         THEN <<PostgreSQLComment(table_name, column_name, column_info)>>
                         ELSE <<>>
    IN  JoinLines(<<type_stmt, default_stmt, null_stmt>> \o comment_stmts)

\* PostgreSQLTools.generate_modify_column_sql
PostgreSQLTools_generate_modify_column_sql(table_name, column_name, column_info) ==
    LET alter == "ALTER TABLE \"" \o table_name \o "\" ALTER COLUMN \"" \o column_name \o "\" "
        type_stmt == alter \o "TYPE " \o column_info.type \o ";"
        null_stmt == IF column_info.nullable = "NO"
                     THEN alter \o "SET NOT NULL;"
                     ELSE alter \o "DROP NOT NULL;"
        default_stmt == IF PostgreSQLDefault(column_info) # ""
                        THEN alter \o "SET " \o PostgreSQLDefault(column_info) \o ";"
                        ELSE alter \o "DROP DEFAULT;"
        comment_stmts == IF Truthy(Get(column_info, "comment", None))
                         THEN <<PostgreSQLComment(table_name, column_name, column_info)>>
                         ELSE <<>>
    IN  JoinLines(<<type_stmt, null_stmt, default_stmt>> \o comment_stmts)

(***************************************************************************)
(* Introspection: catalog rows to table structure.                         *)
(*                                                                         *)
(* A table of a SQLite database is a function from column name to the      *)
(* columns type, notnull, dflt_value and pk of its PRAGMA table_info row;  *)
(* a table of an Oracle schema is a function from column name to the       *)
(* catalog columns the query of get_table_structure selects from.          *)
(***************************************************************************)
\* SQLiteTools.get_data_type_mapping
SQLiteTools_get_data_type_mapping(sqlite_type) ==
    LET type_lower == Lower(sqlite_type)
    IN  IF Contains(type_lower, "int") THEN "INTEGER"
        ELSE IF \/ Contains(type_lower, "char")
                \/ Contains(type_lower, "clob")
                \/ Contains(type_lower, "text") THEN "TEXT"
        ELSE IF Contains(type_lower, "blob") THEN "BLOB"
        ELSE IF \/ Contains(type_lower, "real")
                \/ Contains(type_lower, "floa")
                \/ Contains(type_lower, "doub") THEN "REAL"
        ELSE IF \/ Contains(type_lower, "numeric")
                \/ Contains(type_lower, "decimal") THEN "NUMERIC"
        ELSE Upper(sqlite_type)

\* x or y
Or(x, y) == IF Truthy(x) THEN x ELSE y

\* SQLiteTools.parse_table_structure; columns is the set of 8-tuples
\* (column_name, column_comment, data_type, column_type, column_default,
\*  column_key, is_nullable, extra)
SQLiteTools_parse_table_structure(columns) ==
    [name \in {col[1] : col \in columns} |->
        LET col == CHOOSE c \in columns : c[1] = name
        IN  [type     |-> SQLiteTools_get_data_type_mapping(Or(col[4], col[3])),
             nullable |-> col[7],
             key      |-> Or(col[6], ""),
             default  |-> IF col[5] # None THEN Strip(col[5]) ELSE "NULL",
             extra    |-> Or(col[8], ""),
             comment  |-> Or(col[2], "")]]

\* the tuples SQLiteStrategy.get_table_structure builds from the rows of
\* PRAGMA table_info
SQLiteColumns(table) ==
    {<<name,
       "",
       Or(table[name].type, "TEXT"),
       Or(table[name].type, "TEXT"),
       table[name].dflt_value,
       IF table[name].pk = 1 THEN "PRI" ELSE "",
       IF table[name].notnull = 1 THEN "NO" ELSE "YES",
       "">> : name \in DOMAIN table}

\* the column_type expression of the query of OracleStrategy.get_table_structure
OracleColumnType(col) ==
    col.data_type \o
        (IF col.data_type \in {"VARCHAR2", "CHAR", "RAW"}
         THEN "(" \o col.data_length \o ")"
         ELSE IF col.data_type = "NUMBER" /\ col.data_precision # None
         THEN "(" \o col.data_precision
                  \o (IF col.data_scale # None /\ col.data_scale # "0"
                      THEN "," \o col.data_scale ELSE "")
                  \o ")"
         ELSE "")

\* the rows the query of OracleStrategy.get_table_structure returns:
\* (column_name, column_type, is_nullable, column_key, column_default, extra,
\*  column_comment)
OracleColumns(table) ==
    {<<name,
       OracleColumnType(table[name]),
       table[name].nullable,
       IF table[name].constraint_type = "P" THEN "PRI"
       ELSE IF table[name].constraint_type = "U" THEN "UNI" ELSE "",
       table[name].data_default,
       "",
       table[name].comments>> : name \in DOMAIN table}

\* CommonDatabaseTools.parse_table_structure, which OracleTools inherits:
\* nullable is YES or NO, a missing default is the sentinel NULL, a missing
\* comment is empty
parse_table_structure(columns) ==
    [name \in {col[1] : col \in columns} |->
        LET col == CHOOSE c \in columns : c[1] = name
        IN  [type     |-> col[2],
             nullable |-> IF col[3] \in {"Y", "YES"} THEN "YES" ELSE "NO",
             key      |-> Or(col[4], ""),
             default  |-> IF col[5] # None THEN Strip(col[5]) ELSE "NULL",
             extra    |-> Or(col[6], ""),
             comment  |-> Or(col[7], "")]]

\* what get_table_structure does: return a structure or raise
Returned(structure) == [raised |-> FALSE, value |-> structure, message |-> ""]

Raised(message) == [raised |-> TRUE, value |-> <<>>, message |-> message]

\* SQLiteStrategy.get_table_structure on a database whose catalog holds the
\* table (exists) or not; query_fails: the driver raises on the first query
SQLiteStrategy_get_table_structure(table_name, database, catalog, query_fails) ==
    IF query_fails THEN Raised("query failed")
    ELSE IF ~catalog.exists
    THEN Raised("Table '" \o table_name \o "' does not exist in database '"
                    \o database \o "'")
    ELSE Returned(SQLiteTools_parse_table_structure(SQLiteColumns(catalog.columns)))

\* get_table_structure of OracleStrategy, were a table without rows returned
\* as a structure without columns
get_table_structure_returning_empty(table_name, database, catalog, query_fails) ==
    IF query_fails THEN Raised("query failed")
    ELSE LET columns == IF catalog.exists THEN OracleColumns(catalog.columns) ELSE {}
         IN  Returned(parse_table_structure(columns))

\* OracleStrategy.get_table_structure; a table the schema lacks has no rows
get_table_structure(table_name, database, catalog, query_fails) ==
    IF query_fails THEN Raised("query failed")
    ELSE LET columns == IF catalog.exists THEN OracleColumns(catalog.columns) ELSE {}
         IN  IF columns = {}
             THEN Raised("Table '" \o table_name \o "' does not exist in schema '"
                             \o database \o "'")
             ELSE Returned(parse_table_structure(columns))

(***************************************************************************)
(* State.                                                                  *)
(***************************************************************************)
VARIABLES
    type_str,       \* the argument of the first _normalize_type call
    type_hist,      \* results of the successive _normalize_type calls
    default_str,    \* the argument of the first _normalize_default call
    default_hist,   \* results of the successive _normalize_default calls
    struct_hist,    \* results of the successive _normalize_structure calls
    my_structure,   \* first argument of the differ
    other_structure,\* second argument of the differ
    tools,          \* the tools class whose differ is called
    diff_pc,        \* "start", "compared" (differ called), "swapped" (called again, arguments exchanged)
    result,         \* what the differ returned for (my_structure, other_structure)
    swapped,        \* the first two results of the differ for (other_structure, my_structure)
    synth_table,    \* table_name argument of a synthesizer call
    synth_col,      \* col_name argument of a synthesizer call
    synth_info,     \* col_info argument of a synthesizer call
    synth_op,       \* the synthesizer that was called, "" before the call
    synth_sql,      \* the string the synthesizer returned
    db,             \* the two data sources: dialect, database name, catalog entry of the table
    table_name,     \* table_name argument of compare_table_with
    generate_sql,   \* generate_sql argument of compare_table_with
    cmp_pc,         \* "start", "done" (compare_table_with returned)
    cmp_structures, \* the structures compare_table_with obtained from the two sides
    alter_statements, \* the statement list compare_table_with generated
    cmp_result,     \* what compare_table_with returned
    files,          \* the SQL artifact files on disk
    strategies,     \* the two strategy instances: dialect, database, whether the table exists
    borrowed,       \* per strategy, the connections its pool has lent, each tagged with the operation holding it
    tool,           \* the tool entry point of the running call, "direct" when the strategy is called directly
    operation,      \* the strategy operation the call asked for, "" before the first call
    holder,         \* the strategy operation now running on a connection
    side,           \* the strategy whose operation is running: "mine" or "other"
    pc,             \* position of the running call, "idle" between calls
    error,          \* the exception on its way up, None when there is none
    queries,        \* what the running operation has executed on its connection so far
    outcome,        \* how the last call ended for its caller
    calls,          \* number of calls made so far
    txlog,          \* begin, commit, rollback and close calls of the running call
    file_statements, \* number of statements of the file of execute_sql_file
    idx_dialect,    \* dialect of the strategy that introspects the key of a column
    idx_column,     \* catalog entry of the column, with the indexes it belongs to
    idx_op,         \* the operation that reported the key
    idx_key,        \* the key it reported for the column
    idx_pc,         \* "start", then "done"
    file_lines,     \* the lines a .sql file was written from
    file_content,   \* the text of the file
    executed,       \* the statements execute_sql_file passed to cursor.execute
    file_pc,        \* "start", then "done"
    row_count,      \* rows of the exported table
    batch_index,    \* i of the batch loop of export_data
    batches,        \* the rows each batch query returned
    export_files,   \* names of the files written
    export_result,  \* what export_data returned
    export_pc,      \* position of export_data
    pool,           \* self.pool of each strategy instance
    created,        \* the pools constructed for each strategy instance
    thread_pc,      \* position of each calling thread
    thread_on,      \* the strategy instance a thread is calling
    handed          \* the pool each thread got its last connection from

normVars == <<type_str, type_hist, default_str, default_hist, struct_hist>>

diffVars == <<my_structure, other_structure, tools, diff_pc, result, swapped>>

synthVars == <<synth_table, synth_col, synth_info, synth_op, synth_sql>>

cmpVars == <<db, table_name, generate_sql, cmp_pc, cmp_structures,
             alter_statements, cmp_result, files>>

poolVars == <<strategies, borrowed, tool, operation, holder, side, pc, error,
              queries, outcome, calls, txlog,
              file_statements>>

idxVars == <<idx_dialect, idx_column, idx_op, idx_key, idx_pc>>

fileVars == <<file_lines, file_content, executed, file_pc>>

exportVars == <<row_count, batch_index, batches, export_files, export_result, export_pc>>

lazyVars == <<pool, created, thread_pc, thread_on, handed>>

laterVars == <<idxVars, fileVars, exportVars, lazyVars>>

vars == <<normVars, diffVars, synthVars, cmpVars, poolVars, laterVars>>

\* the value of result before the differ has been called
NoResult == [only_in_mine |-> {}, only_in_other |-> {}, different_cols |-> <<>>]

\* the differ calls take no part in the behaviour
DiffIdle ==
    /\ my_structure = <<>>
    /\ other_structure = <<>>
    /\ tools = ""
    /\ diff_pc = "idle"
    /\ result = NoResult
    /\ swapped = <<{}, {}>>

\* the value of cmp_result before compare_table_with has returned
NoReport == [failed |-> FALSE, text |-> "", sql_file_path |-> None]

\* the comparison takes no part in the behaviour
CmpIdle ==
    /\ db = <<>>
    /\ table_name = ""
    /\ generate_sql = FALSE
    /\ cmp_pc = "idle"
    /\ cmp_structures = <<>>
    /\ alter_statements = <<>>
    /\ cmp_result = NoReport
    /\ files = {}

\* the value of outcome while no call has ended
NoOutcome == [kind |-> "none", failed |-> FALSE, text |-> ""]

\* the strategy operations take no part in the behaviour
PoolIdle ==
    /\ strategies = <<>>
    /\ borrowed = <<>>
    /\ tool = ""
    /\ operation = ""
    /\ holder = ""
    /\ side = ""
    /\ pc = "unused"
    /\ error = None
    /\ queries = <<>>
    /\ outcome = NoOutcome
    /\ calls = 0
    /\ txlog = <<>>
    /\ file_statements = 0

\* no key is introspected in the behaviour
IdxIdle ==
    /\ idx_dialect = ""
    /\ idx_column = <<>>
    /\ idx_op = ""
    /\ idx_key = ""
    /\ idx_pc = "unused"

\* no file is executed in the behaviour
FileIdle ==
    /\ file_lines = <<>>
    /\ file_content = ""
    /\ executed = <<>>
    /\ file_pc = "unused"

\* no table is exported in the behaviour
ExportIdle ==
    /\ row_count = 0
    /\ batch_index = 0
    /\ batches = <<>>
    /\ export_files = <<>>
    /\ export_result = ""
    /\ export_pc = "unused"

\* no thread calls get_connection in the behaviour
LazyIdle ==
    /\ pool = <<>>
    /\ created = <<>>
    /\ thread_pc = <<>>
    /\ thread_on = <<>>
    /\ handed = <<>>

\* the synthesizer calls take no part in the behaviour
SynthIdle ==
    /\ synth_table = ""
    /\ synth_col = ""
    /\ synth_info = <<>>
    /\ synth_op = "idle"
    /\ synth_sql = ""

\* the normalizer calls take no part in the behaviour
NormIdle ==
    /\ type_str = ""
    /\ type_hist = <<>>
    /\ default_str = ""
    /\ default_hist = <<>>
    /\ struct_hist = <<>>

(***************************************************************************)
(* Normalizer calls: each call normalizes the result of the call before it.*)
(***************************************************************************)
TypeStrings ==
    {"int", "INT", " int ", "integer", "int4", "int8", "int2", "bigint",
     "smallint", "varchar", "varchar(50)", "character varying", "char",
     "char(10)", "character", "bool", "boolean", "timestamp", "timestamptz",
     "timestamp without time zone", "text", "numeric(10,2)"}

DefaultStrings ==
    {None, "", "NULL", "now()", "NOW()", "current_timestamp",
     "CURRENT_TIMESTAMP", "Current_Timestamp",
     "nextval('users_id_seq'::regclass)",
     "nextval('current_timestamp_log_id_seq'::regclass)",
     "'abc'", "''", "0", "false"}

\* the one-column structure whose column carries type_str and default_str
NormInput ==
    [c \in {"c"} |->
        [type |-> type_str, nullable |-> "YES", default |-> default_str]]

NormInit ==
    /\ type_str \in TypeStrings
    /\ default_str \in DefaultStrings
    /\ type_hist = <<>>
    /\ default_hist = <<>>
    /\ struct_hist = <<>>
    /\ DiffIdle
    /\ SynthIdle
    /\ CmpIdle
    /\ PoolIdle
    /\ IdxIdle
    /\ FileIdle
    /\ ExportIdle
    /\ LazyIdle

NormalizeType ==
    /\ Len(type_hist) < MaxApply
    /\ type_hist' = Append(type_hist,
           _normalize_type(IF type_hist = <<>> THEN type_str
                           ELSE type_hist[Len(type_hist)]))
    /\ UNCHANGED <<type_str, default_str, default_hist, struct_hist>>
    /\ UNCHANGED <<diffVars, synthVars, cmpVars, poolVars, laterVars>>

NormalizeDefault ==
    /\ Len(default_hist) < MaxApply
    /\ default_hist' = Append(default_hist,
           _normalize_default(IF default_hist = <<>> THEN default_str
                              ELSE default_hist[Len(default_hist)]))
    /\ UNCHANGED <<type_str, type_hist, default_str, struct_hist>>
    /\ UNCHANGED <<diffVars, synthVars, cmpVars, poolVars, laterVars>>

NormalizeStructure ==
    /\ Len(struct_hist) < MaxApply
    /\ struct_hist' = Append(struct_hist,
           _normalize_structure(IF struct_hist = <<>> THEN NormInput
                                ELSE struct_hist[Len(struct_hist)]))
    /\ UNCHANGED <<type_str, type_hist, default_str, default_hist>>
    /\ UNCHANGED <<diffVars, synthVars, cmpVars, poolVars, laterVars>>

NormNext ==
    \/ NormalizeType
    \/ NormalizeDefault
    \/ NormalizeStructure

NormSpec == NormInit /\ [][NormNext]_vars

(***************************************************************************)
(* Claims about the normalizer.                                            *)
(***************************************************************************)
\* C5: normalization is idempotent: a second _normalize_type,
\* _normalize_default or _normalize_structure call returns what the first
\* call returned.
C5_NormalizationIdempotent ==
    /\ Len(type_hist) >= 2 => type_hist[2] = type_hist[1]
    /\ Len(default_hist) >= 2 => default_hist[2] = default_hist[1]
    /\ Len(struct_hist) >= 2 => struct_hist[2] = struct_hist[1]

\* suffixes a type may carry after its name
TypeSuffixes == {"", "(50)", "(10)"}

\* C7: _normalize_type maps every alias of type_aliases, with any suffix
\* kept, to the canonical spelling the table lists for it.
C7_AliasesMapToCanonical ==
    \A i \in 1..Len(type_aliases) : \A suffix \in TypeSuffixes :
        (type_hist # <<>> /\ type_str = type_aliases[i][1] \o suffix)
            => type_hist[1] = type_aliases[i][2] \o suffix

\* a default that calls nextval
IsSequenceDefault(d) == d # None /\ StartsWith(Lower(d), "nextval(")

\* C8: _normalize_default maps now() and current_timestamp in any letter
\* case to CURRENT_TIMESTAMP, every default that calls nextval to SEQUENCE,
\* and an absent, empty or NULL default to NULL.
C8_DefaultsMapToCanonical ==
    default_hist # <<>> =>
        /\ (default_str # None /\ Lower(default_str) \in {"now()", "current_timestamp"})
               => default_hist[1] = "CURRENT_TIMESTAMP"
        /\ IsSequenceDefault(default_str) => default_hist[1] = "SEQUENCE"
        /\ default_str \in {None, "", "NULL"} => default_hist[1] = "NULL"

(***************************************************************************)
(* Differ calls on arbitrary pairs of structures.                          *)
(***************************************************************************)
ColUniverse == <<"id", "name", "email", "age">>

ColNames == {ColUniverse[i] : i \in 1..MaxCols}

BaseInfo ==
    [type |-> "int", nullable |-> "YES", default |-> "NULL",
     key |-> "", extra |-> "", comment |-> ""]

\* the dict without its 'default' key
WithoutDefault(info) == [f \in DOMAIN info \ {"default"} |-> info[f]]

\* BaseInfo and its one-step variations: another type spelling, another
\* nullable flag, an empty default, a real default, no default attribute,
\* other metadata
ColumnInfos ==
    {BaseInfo,
     [BaseInfo EXCEPT !.type = "integer"],
     [BaseInfo EXCEPT !.nullable = "NO"],
     [BaseInfo EXCEPT !.default = ""],
     [BaseInfo EXCEPT !.default = "0"],
     WithoutDefault(BaseInfo),
     [BaseInfo EXCEPT !.key = "PRI", !.extra = "auto_increment",
                      !.comment = "row id"]}

\* the attributes a column of the reference side may have
ReferenceInfos == {BaseInfo, WithoutDefault(BaseInfo)}

\* the table structures over ColNames whose columns draw from infos
StructuresOver(infos) == UNION {[S -> infos] : S \in SUBSET ColNames}

ToolsClasses == {"oracle", "sqlite", "postgresql"}

\* the differ a comparison through tools class t runs
Differ(t, my, other, order) ==
    CASE t = "oracle" -> compare_columns(my, other, order)
      [] t = "sqlite" -> SQLiteTools_compare_columns(my, other, order)
      [] t = "postgresql" -> compare_columns_with_type_normalization(my, other, order)

DiffInit ==
    /\ my_structure \in StructuresOver(ColumnInfos)
    /\ other_structure \in StructuresOver(ReferenceInfos)
    /\ tools = ""
    /\ diff_pc = "start"
    /\ result = NoResult
    /\ swapped = <<{}, {}>>
    /\ NormIdle
    /\ SynthIdle
    /\ CmpIdle
    /\ PoolIdle
    /\ IdxIdle
    /\ FileIdle
    /\ ExportIdle
    /\ LazyIdle

\* compare_columns(my_structure, other_structure) of one tools class
CompareColumns ==
    /\ diff_pc = "start"
    /\ \E t \in ToolsClasses :
         \E order \in Orderings(DOMAIN my_structure \cap DOMAIN other_structure) :
            /\ tools' = t
            /\ result' = Differ(t, my_structure, other_structure, order)
    /\ diff_pc' = "compared"
    /\ UNCHANGED <<my_structure, other_structure, swapped>>
    /\ UNCHANGED <<normVars, synthVars, cmpVars, poolVars, laterVars>>

\* compare_columns(other_structure, my_structure) of the same tools class
CompareColumnsSwapped ==
    /\ diff_pc = "compared"
    /\ \E order \in Orderings(DOMAIN my_structure \cap DOMAIN other_structure) :
         LET r == Differ(tools, other_structure, my_structure, order)
         IN  swapped' = <<r.only_in_mine, r.only_in_other>>
    /\ diff_pc' = "swapped"
    /\ UNCHANGED <<my_structure, other_structure, tools, result>>
    /\ UNCHANGED <<normVars, synthVars, cmpVars, poolVars, laterVars>>

DiffNext ==
    \/ CompareColumns
    \/ CompareColumnsSwapped

DiffSpec == DiffInit /\ [][DiffNext]_vars

(***************************************************************************)
(* Claims about the differ.                                                *)
(***************************************************************************)
\* the elements of a sequence
Range(seq) == {seq[i] : i \in 1..Len(seq)}

\* the columns both arguments have
CommonCols == DOMAIN my_structure \cap DOMAIN other_structure

\* the differs that compare the structures as given
PlainTools == {"oracle", "sqlite"}

\* C1: symmetry of absence: exchanging the arguments of the differ
\* exchanges its only-in-mine and only-in-other results.
C1_SymmetryOfAbsence ==
    diff_pc = "swapped" =>
        /\ result.only_in_mine = swapped[2]
        /\ result.only_in_other = swapped[1]

C1_Witness ==
    /\ diff_pc = "swapped"
    /\ tools \in PlainTools
    /\ result.only_in_mine # {}
    /\ result.only_in_other # {}

\* C2: the three results are pairwise disjoint; only_in_mine is exactly the
\* columns of mine that other lacks, only_in_other exactly the columns of
\* other that mine lacks, and different_cols lists columns both have, each at
\* most once.
C2_DisjointResults ==
    diff_pc \in {"compared", "swapped"} =>
        /\ result.only_in_mine = {c \in DOMAIN my_structure : c \notin DOMAIN other_structure}
        /\ result.only_in_other = {c \in DOMAIN other_structure : c \notin DOMAIN my_structure}
        /\ \A i \in 1..Len(result.different_cols) :
             /\ result.different_cols[i] \in DOMAIN my_structure
             /\ result.different_cols[i] \in DOMAIN other_structure
             /\ \A j \in 1..Len(result.different_cols) :
                  result.different_cols[i] = result.different_cols[j] => i = j
        /\ result.only_in_mine \cap result.only_in_other = {}
        /\ result.only_in_mine \cap Range(result.different_cols) = {}
        /\ result.only_in_other \cap Range(result.different_cols) = {}

C2_Witness ==
    /\ diff_pc = "compared"
    /\ tools \in PlainTools
    /\ result.only_in_other # {}
    /\ result.different_cols # <<>>

\* the default of a column, the sentinel NULL standing for a missing attribute
DefaultOrNull(info) == IF "default" \in DOMAIN info THEN info.default ELSE "NULL"

\* the two sides of col agree on type, nullable and default
SameStructuralFields(col) ==
    /\ my_structure[col].type = other_structure[col].type
    /\ my_structure[col].nullable = other_structure[col].nullable
    /\ DefaultOrNull(my_structure[col]) = DefaultOrNull(other_structure[col])

\* C3: a common column is in different_cols of the plain differ exactly when
\* type, nullable or default differ; in every differ, columns that differ only
\* in key, extra or comment are not reported.
C3_DifferingIffStructural ==
    diff_pc \in {"compared", "swapped"} =>
        \A col \in CommonCols :
            /\ tools \in PlainTools =>
                 (col \in Range(result.different_cols) <=> ~SameStructuralFields(col))
            /\ SameStructuralFields(col) => col \notin Range(result.different_cols)

C3_Witness ==
    /\ diff_pc = "compared"
    /\ \E col \in CommonCols :
         /\ my_structure[col].key # other_structure[col].key
         /\ my_structure[col].comment # other_structure[col].comment
         /\ SameStructuralFields(col)
    /\ result.different_cols # <<>>

\* info carries no default: no 'default' attribute, or an absent or empty value
HasNoDefault(info) == "default" \notin DOMAIN info \/ info.default \in {None, ""}

\* info carries the default string NULL
CarriesNull(info) == "default" \in DOMAIN info /\ info.default = "NULL"

\* C4: default-null equivalence: with equal type and nullable, a column whose
\* default is the string NULL on one side and that has no default on the
\* other side is not reported as differing, by any differ.
C4_DefaultNullEquivalence ==
    diff_pc \in {"compared", "swapped"} =>
        \A col \in CommonCols :
            ( /\ my_structure[col].type = other_structure[col].type
              /\ my_structure[col].nullable = other_structure[col].nullable
              /\ \/ /\ HasNoDefault(my_structure[col])
                    /\ CarriesNull(other_structure[col])
                 \/ /\ HasNoDefault(other_structure[col])
                    /\ CarriesNull(my_structure[col]) )
            => col \notin Range(result.different_cols)

\* the structures have the same columns and agree on all of them but col,
\* which is int on one side and integer on the other and agrees otherwise
OnlyIntVsInteger(col) ==
    /\ DOMAIN my_structure = DOMAIN other_structure
    /\ col \in CommonCols
    /\ \A c \in CommonCols \ {col} : my_structure[c] = other_structure[c]
    /\ {my_structure[col].type, other_structure[col].type} = {"int", "integer"}
    /\ "default" \in DOMAIN my_structure[col]
    /\ "default" \in DOMAIN other_structure[col]
    /\ [my_structure[col] EXCEPT !.type = "int"] = [other_structure[col] EXCEPT !.type = "int"]

\* C6: normalization necessity: when int against integer on one column is the
\* only discrepancy, the plain differ reports the column and the normalizing
\* differ reports no difference.
C6_NormalizationNecessity ==
    diff_pc \in {"compared", "swapped"} =>
        \A col \in CommonCols :
            OnlyIntVsInteger(col) =>
                /\ tools \in PlainTools => col \in Range(result.different_cols)
                /\ tools = "postgresql" => result.different_cols = <<>>

(***************************************************************************)
(* Synthesizer calls on arbitrary column attributes.                       *)
(***************************************************************************)
TableNames == {"users", "orders"}

SynthTypes == {"INTEGER", "TEXT", "VARCHAR(50)", "varchar(100)"}

\* column attributes with a default attribute
SynthInfosWithDefault ==
    [type : SynthTypes, nullable : {"YES", "NO"},
     default : {None, "", "NULL", "0", "CURRENT_TIMESTAMP", "now()", "CURRENT_DATE"}]

\* column attributes with and without a default, as OracleTools and
\* SQLiteTools read them
SynthInfosWithoutMeta ==
    SynthInfosWithDefault \cup {WithoutDefault(info) : info \in SynthInfosWithDefault}

\* an attribute a column_info dict does not hold
Absent == "<absent>"

\* column_info with the attribute key set to value, unless value is Absent
WithOptional(info, key, value) ==
    IF value = Absent THEN info
    ELSE [f \in DOMAIN info \cup {key} |-> IF f = key THEN value ELSE info[f]]

SynthExtras == {Absent, "auto_increment"}

SynthComments == {Absent, "", "user name"}

\* the column attributes handed to a synthesizer: with and without default,
\* extra and comment
SynthInfos ==
    {WithOptional(WithOptional(info, "extra", e), "comment", c) :
        info \in SynthInfosWithoutMeta, e \in SynthExtras, c \in SynthComments}

SynthInit ==
    /\ synth_table \in TableNames
    /\ synth_col \in ColNames
    /\ synth_info \in SynthInfos
    /\ synth_op = ""
    /\ synth_sql = ""
    /\ NormIdle
    /\ DiffIdle
    /\ CmpIdle
    /\ PoolIdle
    /\ IdxIdle
    /\ FileIdle
    /\ ExportIdle
    /\ LazyIdle

OracleGenerateAdd ==
    /\ synth_op = ""
    /\ synth_op' = "oracle_add"
    /\ synth_sql' = generate_add_column_sql(synth_table, synth_col, synth_info)
    /\ UNCHANGED <<synth_table, synth_col, synth_info, normVars, diffVars, cmpVars, poolVars, laterVars>>

OracleGenerateModify ==
    /\ synth_op = ""
    /\ synth_op' = "oracle_modify"
    /\ synth_sql' = generate_modify_column_sql(synth_table, synth_col, synth_info)
    /\ UNCHANGED <<synth_table, synth_col, synth_info, normVars, diffVars, cmpVars, poolVars, laterVars>>

SQLiteGenerateAdd ==
    /\ synth_op = ""
    /\ synth_op' = "sqlite_add"
    /\ synth_sql' = SQLiteTools_generate_add_column_sql(synth_table, synth_col, synth_info)
    /\ UNCHANGED <<synth_table, synth_col, synth_info, normVars, diffVars, cmpVars, poolVars, laterVars>>

SQLiteGenerateModify ==
    /\ synth_op = ""
    /\ synth_op' = "sqlite_modify"
    /\ synth_sql' = SQLiteTools_generate_modify_column_sql(synth_table, synth_col, synth_info)
    /\ UNCHANGED <<synth_table, synth_col, synth_info, normVars, diffVars, cmpVars, poolVars, laterVars>>

MySQLGenerateAdd ==
    /\ synth_op = ""
    /\ synth_op' = "mysql_add"
    /\ synth_sql' = MySQLTools_generate_add_column_sql(synth_table, synth_col, synth_info)
    /\ UNCHANGED <<synth_table, synth_col, synth_info, normVars, diffVars, cmpVars, poolVars, laterVars>>

MySQLGenerateModify ==
    /\ synth_op = ""
    /\ synth_op' = "mysql_modify"
    /\ synth_sql' = MySQLTools_generate_modify_column_sql(synth_table, synth_col, synth_info)
    /\ UNCHANGED <<synth_table, synth_col, synth_info, normVars, diffVars, cmpVars, poolVars, laterVars>>

PostgreSQLGenerateAdd ==
    /\ synth_op = ""
    /\ synth_op' = "postgresql_add"
    /\ synth_sql' = PostgreSQLTools_generate_add_column_sql(synth_table, synth_col, synth_info)
    /\ UNCHANGED <<synth_table, synth_col, synth_info, normVars, diffVars, cmpVars, poolVars, laterVars>>

PostgreSQLGenerateModify ==
    /\ synth_op = ""
    /\ synth_op' = "postgresql_modify"
    /\ synth_sql' = PostgreSQLTools_generate_modify_column_sql(synth_table, synth_col, synth_info)
    /\ UNCHANGED <<synth_table, synth_col, synth_info, normVars, diffVars, cmpVars, poolVars, laterVars>>

SynthNext ==
    \/ OracleGenerateAdd
    \/ OracleGenerateModify
    \/ SQLiteGenerateAdd
    \/ SQLiteGenerateModify
    \/ MySQLGenerateAdd
    \/ MySQLGenerateModify
    \/ PostgreSQLGenerateAdd
    \/ PostgreSQLGenerateModify

SynthSpec == SynthInit /\ [][SynthNext]_vars

(***************************************************************************)
(* Claims about the synthesizers.                                          *)
(***************************************************************************)
\* C10: SQLite modify gap: the MODIFY synthesis of SQLiteTools returns, for
\* every table, column and attributes, one comment line: it starts with --,
\* names the column and its type, has no line break after which a statement
\* could follow, and is no ALTER statement.
C10_SQLiteModifyGap ==
    synth_op = "sqlite_modify" =>
        /\ StartsWith(synth_sql, "--")
        /\ Contains(synth_sql, synth_col \o " " \o synth_info.type)
        /\ ~Contains(synth_sql, "\n")
        /\ ~StartsWith(Upper(LStripChars(synth_sql, Whitespace \cup {"-"})), "ALTER")

C10_Witness ==
    /\ synth_op = "sqlite_modify"
    /\ synth_info.nullable = "NO"
    /\ "default" \in DOMAIN synth_info
    /\ synth_info.default = "0"
    /\ Contains(synth_sql, "DEFAULT 0 NOT NULL")

\* s.endswith(suffix)
EndsWith(s, suffix) ==
    Len(s) >= Len(suffix) /\ SubSeq(s, Len(s) - Len(suffix) + 1, Len(s)) = suffix

\* s.split('\n'): the statements of a synthesizer result, one per line
RECURSIVE SplitLines(_)
SplitLines(s) ==
    LET breaks == Occurrences(s, "\n")
    IN  IF breaks = {} THEN <<s>>
        ELSE LET i == CHOOSE b \in breaks : \A c \in breaks : b <= c
             IN  <<SubSeq(s, 1, i - 1)>> \o SplitLines(SubSeq(s, i + 1, Len(s)))

\* the column attributes carry a default the synthesizers emit: non-empty and
\* not 'NULL'
HasDefault(info) ==
    Truthy(Get(info, "default", None)) /\ Get(info, "default", None) # "NULL"

\* the column attributes carry a non-empty comment
HasComment(info) == Truthy(Get(info, "comment", None))

\* C11: MySQL synthesis returns exactly one statement per column, of the form
\* ALTER TABLE `t` ADD COLUMN|MODIFY COLUMN `c` <type>, then NOT NULL when
\* nullable is NO and NULL otherwise, then a DEFAULT clause only when the
\* default is non-empty and not 'NULL' (quoted unless it is exactly
\* CURRENT_TIMESTAMP), then extra, then COMMENT, ending with ';'.  For type
\* varchar(100), nullable NO and no default the MODIFY statement of column
\* name contains 'MODIFY COLUMN `name` varchar(100) NOT NULL'.
C11_MySQLSingleStatement ==
    synth_op \in {"mysql_add", "mysql_modify"} =>
        LET action == IF synth_op = "mysql_add" THEN "ADD COLUMN" ELSE "MODIFY COLUMN"
            d == Get(synth_info, "default", None)
            head == "ALTER TABLE " \o Backtick \o synth_table \o Backtick \o " " \o action
                        \o " " \o Backtick \o synth_col \o Backtick \o " " \o synth_info.type
            nullability == IF synth_info.nullable = "NO" THEN " NOT NULL" ELSE " NULL"
            default == IF ~HasDefault(synth_info) THEN ""
                       ELSE IF d = "CURRENT_TIMESTAMP" THEN " DEFAULT " \o d
                       ELSE " DEFAULT '" \o d \o "'"
            extra == IF Truthy(Get(synth_info, "extra", None))
                     THEN " " \o synth_info.extra ELSE ""
            comment == IF HasComment(synth_info)
                       THEN " COMMENT '" \o synth_info.comment \o "'" ELSE ""
        IN  /\ synth_sql = head \o nullability \o default \o extra \o comment \o ";"
            /\ Cardinality(Occurrences(synth_sql, ";")) = 1
            /\ ~Contains(synth_sql, "\n")
            /\ ( /\ synth_op = "mysql_modify"
                 /\ synth_col = "name"
                 /\ synth_info.type = "varchar(100)"
                 /\ synth_info.nullable = "NO"
                 /\ ~HasDefault(synth_info) )
               => Contains(synth_sql, "MODIFY COLUMN " \o Backtick \o "name" \o Backtick
                                          \o " varchar(100) NOT NULL")

C11_Witness ==
    /\ synth_op = "mysql_modify"
    /\ synth_col = "name"
    /\ synth_info.type = "varchar(100)"
    /\ synth_info.nullable = "NO"
    /\ "default" \notin DOMAIN synth_info
    /\ synth_sql = "ALTER TABLE " \o Backtick \o "users" \o Backtick \o " MODIFY COLUMN "
                       \o Backtick \o "name" \o Backtick \o " varchar(100) NOT NULL;"

\* C12: PostgreSQL MODIFY synthesis returns an ordered sequence of statements
\* for one column: first ALTER COLUMN ... TYPE, then exactly one of SET NOT
\* NULL (nullable NO) or DROP NOT NULL, then exactly one of SET DEFAULT
\* (default non-empty and not 'NULL') or DROP DEFAULT, then a COMMENT ON COLUMN
\* statement only when a comment exists; the TYPE statement is always there.
C12_PostgreSQLModifySequence ==
    synth_op = "postgresql_modify" =>
        LET stmts == SplitLines(synth_sql)
            alter == "ALTER TABLE \"" \o synth_table \o "\" ALTER COLUMN \""
                         \o synth_col \o "\" "
        IN  /\ Len(stmts) = IF HasComment(synth_info) THEN 4 ELSE 3
            /\ stmts[1] = alter \o "TYPE " \o synth_info.type \o ";"
            /\ stmts[2] = IF synth_info.nullable = "NO"
                          THEN alter \o "SET NOT NULL;"
                          ELSE alter \o "DROP NOT NULL;"
            /\ IF HasDefault(synth_info)
               THEN StartsWith(stmts[3], alter \o "SET DEFAULT ")
               ELSE stmts[3] = alter \o "DROP DEFAULT;"
            /\ HasComment(synth_info) => StartsWith(stmts[4], "COMMENT ON COLUMN ")

C12_Witness ==
    /\ synth_op = "postgresql_modify"
    /\ synth_info.nullable = "NO"
    /\ HasDefault(synth_info)
    /\ HasComment(synth_info)
    /\ Len(SplitLines(synth_sql)) = 4
    /\ EndsWith(SplitLines(synth_sql)[2], "SET NOT NULL;")

\* C13: PostgreSQL ADD synthesis returns one ALTER TABLE ... ADD COLUMN
\* statement, followed by a separate COMMENT ON COLUMN statement exactly when
\* the column has a non-empty comment; in ADD and in MODIFY a default equal to
\* CURRENT_TIMESTAMP, now() or CURRENT_DATE is emitted unquoted and every other
\* default that is emitted is inside single quotes.
C13_PostgreSQLAddAndQuoting ==
    LET stmts == SplitLines(synth_sql)
        d == Get(synth_info, "default", None)
    IN  /\ synth_op = "postgresql_add" =>
               /\ Len(stmts) = IF HasComment(synth_info) THEN 2 ELSE 1
               /\ StartsWith(stmts[1], "ALTER TABLE \"" \o synth_table \o "\" ADD COLUMN \""
                                           \o synth_col \o "\" " \o synth_info.type)
               /\ Cardinality(Occurrences(stmts[1], ";")) = 1
               /\ EndsWith(stmts[1], ";")
               /\ HasComment(synth_info) =>
                      stmts[2] = "COMMENT ON COLUMN \"" \o synth_table \o "\".\"" \o synth_col
                                     \o "\" IS '" \o synth_info.comment \o "';"
        /\ (synth_op \in {"postgresql_add", "postgresql_modify"} /\ HasDefault(synth_info)) =>
               IF d \in {"CURRENT_TIMESTAMP", "now()", "CURRENT_DATE"}
               THEN Contains(synth_sql, " DEFAULT " \o d \o ";") /\ ~Contains(synth_sql, "DEFAULT '")
               ELSE Contains(synth_sql, " DEFAULT '" \o d \o "';")

C13_Witness ==
    /\ synth_op = "postgresql_add"
    /\ HasComment(synth_info)
    /\ Get(synth_info, "default", None) = "now()"
    /\ Len(SplitLines(synth_sql)) = 2
    /\ Contains(synth_sql, " DEFAULT now();\nCOMMENT ON COLUMN ")

\* C14: Oracle synthesis returns a single statement ALTER TABLE t ADD|MODIFY c
\* <type> [DEFAULT d] NULL|NOT NULL with unquoted identifiers: the DEFAULT
\* clause is present exactly when the default is non-empty and not 'NULL', the
\* default value is emitted unquoted, and the statement ends with NULL when
\* nullable is YES and with NOT NULL otherwise.
C14_OracleSingleStatement ==
    synth_op \in {"oracle_add", "oracle_modify"} =>
        LET verb == IF synth_op = "oracle_add" THEN "ADD" ELSE "MODIFY"
            d == Get(synth_info, "default", None)
        IN  /\ StartsWith(synth_sql, "ALTER TABLE " \o synth_table \o " " \o verb \o " "
                                         \o synth_col \o " " \o synth_info.type \o " ")
            /\ Contains(synth_sql, " DEFAULT ") <=> HasDefault(synth_info)
            /\ HasDefault(synth_info) => Contains(synth_sql, " DEFAULT " \o d \o " ")
            /\ ~Contains(synth_sql, "'")
            /\ ~Contains(synth_sql, "\"")
            /\ ~Contains(synth_sql, Backtick)
            /\ ~Contains(synth_sql, "\n")
            /\ ~Contains(synth_sql, ";")
            /\ EndsWith(synth_sql, " NULL")
            /\ EndsWith(synth_sql, " NOT NULL") <=> synth_info.nullable # "YES"

C14_Witness ==
    /\ synth_op = "oracle_modify"
    /\ synth_info.nullable = "NO"
    /\ Get(synth_info, "default", None) = "CURRENT_TIMESTAMP"
    /\ synth_sql = "ALTER TABLE users MODIFY name INTEGER  DEFAULT CURRENT_TIMESTAMP NOT NULL"

(***************************************************************************)
(* The comparison orchestrator.                                            *)
(***************************************************************************)
\* position of a lower-case letter in the alphabet
LetterRank(c) == CHOOSE i \in 1..26 : LowerLetters[i] = c

RECURSIVE LexLess(_, _)
\* a < b of two strings of lower-case letters
LexLess(a, b) ==
    IF a = "" THEN b # ""
    ELSE IF b = "" THEN FALSE
    ELSE IF SubSeq(a, 1, 1) = SubSeq(b, 1, 1)
         THEN LexLess(SubSeq(a, 2, Len(a)), SubSeq(b, 2, Len(b)))
         ELSE LetterRank(SubSeq(a, 1, 1)) < LetterRank(SubSeq(b, 1, 1))

\* sorted(S) of a set of column names
SortedCols(S) ==
    CHOOSE order \in Orderings(S) :
        \A i, j \in 1..Cardinality(S) : i < j => LexLess(order[i], order[j])

\* generate_add_column_sql of the tools class t
AddColumnSql(t, table, col, info) ==
    CASE t = "oracle" -> generate_add_column_sql(table, col, info)
      [] t = "sqlite" -> SQLiteTools_generate_add_column_sql(table, col, info)

\* generate_modify_column_sql of the tools class t
ModifyColumnSql(t, table, col, info) ==
    CASE t = "oracle" -> generate_modify_column_sql(table, col, info)
      [] t = "sqlite" -> SQLiteTools_generate_modify_column_sql(table, col, info)

\* generate_alter_statements, were the MODIFY statements emitted in the order
\* in which compare_columns visited the common columns
generate_alter_statements_unsorted(table, my, other, t, order) ==
    LET diff == Differ(t, my, other, order)
        added == SortedCols(diff.only_in_other)
        modified == diff.different_cols
    IN  [i \in 1..Len(added) |-> AddColumnSql(t, table, added[i], other[added[i]])]
        \o [i \in 1..Len(modified) |->
               ModifyColumnSql(t, table, modified[i], other[modified[i]])]

\* DatabaseStrategy.generate_alter_statements: an ADD for every column only
\* the other side has, then a MODIFY for every differing column, both with
\* the other side's attributes, column names in lexicographic order
generate_alter_statements(table, my, other, t, order) ==
    LET diff == Differ(t, my, other, order)
        added == SortedCols(diff.only_in_other)
        modified == SortedCols(Range(diff.different_cols))
    IN  [i \in 1..Len(added) |-> AddColumnSql(t, table, added[i], other[added[i]])]
        \o [i \in 1..Len(modified) |->
               ModifyColumnSql(t, table, modified[i], other[modified[i]])]

\* CommonDatabaseTools.save_alter_sql: the file it writes, named from the
\* table name and the target database
save_alter_sql(table, statements, database) ==
    [path |-> "alter_" \o table \o "_" \o database \o ".sql",
     content |-> statements]

\* the files compare_table_with writes, were a file written whenever
\* generate_sql is set
written_files_ignoring_emptiness(generate, table, statements, database) ==
    IF generate
    THEN {save_alter_sql(table, statements, database)}
    ELSE {}

\* the files compare_table_with writes once both structures are known;
\* statements is the list generate_alter_statements returns
written_files(generate, table, statements, database) ==
    IF generate /\ statements # <<>>
    THEN {save_alter_sql(table, statements, database)}
    ELSE {}

\* get_table_structure of a data source
GetTableStructure(source, table, query_fails) ==
    CASE source.dialect = "oracle" ->
            get_table_structure(table, source.database, source.catalog, query_fails)
      [] source.dialect = "sqlite" ->
            SQLiteStrategy_get_table_structure(table, source.database, source.catalog, query_fails)

\* the string compare_table_with returns from its except clause
Failure(message) ==
    [failed |-> TRUE,
     text |-> "Table structure comparison failed: " \o message,
     sql_file_path |-> None]

\* DatabaseStrategy.format_comparison_result: the report, which names the
\* artifact when one was written
format_comparison_result(table, written) ==
    [failed |-> FALSE,
     text |-> "Table structure comparison: " \o table,
     sql_file_path |-> IF written = {} THEN None
                       ELSE (CHOOSE f \in written : TRUE).path]

\* compare_table_with of the strategy self against other_strategy: what it
\* returns, the structures and statements it computed, the files it wrote.
\* my_fails, other_fails: a query of that side's introspection raises; order:
\* the order in which the differ visits the common columns
compare_table_with(self, other_strategy, table, generate, my_fails, other_fails, order) ==
    LET mine == GetTableStructure(self, table, my_fails)
        theirs == GetTableStructure(other_strategy, table, other_fails)
    IN  IF mine.raised
        THEN [returned |-> Failure(mine.message), structures |-> <<>>,
              statements |-> <<>>, written |-> {}]
        ELSE IF theirs.raised
        THEN [returned |-> Failure(theirs.message), structures |-> <<mine.value>>,
              statements |-> <<>>, written |-> {}]
        ELSE LET statements ==
                     IF generate
                     THEN generate_alter_statements(table, mine.value, theirs.value,
                                                    self.dialect, order)
                     ELSE <<>>
                 written == written_files(generate, table, statements,
                                          other_strategy.database)
             IN  [returned |-> format_comparison_result(table, written),
                  structures |-> <<mine.value, theirs.value>>,
                  statements |-> statements,
                  written |-> written]

(***************************************************************************)
(* Comparisons between two data sources.                                   *)
(***************************************************************************)
Dialects == {"oracle", "sqlite"}

\* a PRAGMA table_info row of a nullable INTEGER column without default
SQLiteBaseColumn == [type |-> "INTEGER", notnull |-> 0, dflt_value |-> None, pk |-> 0]

\* the row and its one-step variations
SQLiteCatalogColumns ==
    {SQLiteBaseColumn,
     [SQLiteBaseColumn EXCEPT !.type = "varchar(50)"],
     [SQLiteBaseColumn EXCEPT !.notnull = 1],
     [SQLiteBaseColumn EXCEPT !.dflt_value = "0"],
     [SQLiteBaseColumn EXCEPT !.pk = 1]}

\* the catalog entry of a nullable NUMBER column without default
OracleBaseColumn ==
    [data_type |-> "NUMBER", data_length |-> "22", data_precision |-> None,
     data_scale |-> None, nullable |-> "Y", constraint_type |-> None,
     data_default |-> None, comments |-> None]

\* the entry and its one-step variations
OracleCatalogColumns ==
    {OracleBaseColumn,
     [OracleBaseColumn EXCEPT !.data_type = "VARCHAR2", !.data_length = "50"],
     [OracleBaseColumn EXCEPT !.nullable = "N"],
     [OracleBaseColumn EXCEPT !.data_default = "0"],
     [OracleBaseColumn EXCEPT !.constraint_type = "P"]}

\* the columns a table of the caller's side may have
CatalogColumns(dialect) ==
    IF dialect = "oracle" THEN OracleCatalogColumns ELSE SQLiteCatalogColumns

\* the columns a table of the other side may have
ReferenceCatalogColumns(dialect) ==
    IF dialect = "oracle"
    THEN {OracleBaseColumn,
          [OracleBaseColumn EXCEPT !.data_type = "VARCHAR2", !.data_length = "100"]}
    ELSE {SQLiteBaseColumn, [SQLiteBaseColumn EXCEPT !.type = "varchar(100)"]}

\* the catalog entries of the table: missing, or with at least one column
Catalogs(columns) ==
    {[exists |-> FALSE, columns |-> <<>>]}
        \cup {[exists |-> TRUE, columns |-> t] :
                 t \in UNION {[S -> columns] : S \in SUBSET ColNames \ {{}}}}

CmpInit ==
    /\ \E d1 \in Dialects, d2 \in Dialects :
         \E c1 \in Catalogs(CatalogColumns(d1)), c2 \in Catalogs(ReferenceCatalogColumns(d2)) :
            db = [mine  |-> [dialect |-> d1, database |-> "db_a", catalog |-> c1],
                  other |-> [dialect |-> d2, database |-> "db_b", catalog |-> c2]]
    /\ table_name = "users"
    /\ generate_sql \in BOOLEAN
    /\ cmp_pc = "start"
    /\ cmp_structures = <<>>
    /\ alter_statements = <<>>
    /\ cmp_result = NoReport
    /\ files = {}
    /\ NormIdle
    /\ DiffIdle
    /\ SynthIdle
    /\ PoolIdle
    /\ IdxIdle
    /\ FileIdle
    /\ ExportIdle
    /\ LazyIdle

\* db.mine.compare_table_with(table_name, db.other, generate_sql)
CompareTableWith ==
    /\ cmp_pc = "start"
    /\ \E my_fails \in BOOLEAN, other_fails \in BOOLEAN :
         \E order \in Orderings(DOMAIN db.mine.catalog.columns
                                    \cap DOMAIN db.other.catalog.columns) :
            LET call == compare_table_with(db.mine, db.other, table_name,
                                           generate_sql, my_fails, other_fails, order)
            IN  /\ cmp_result' = call.returned
                /\ cmp_structures' = call.structures
                /\ alter_statements' = call.statements
                /\ files' = files \cup call.written
    /\ cmp_pc' = "done"
    /\ UNCHANGED <<db, table_name, generate_sql>>
    /\ UNCHANGED <<normVars, diffVars, synthVars, poolVars, laterVars>>

CmpNext == CompareTableWith

CmpSpec == CmpInit /\ [][CmpNext]_vars

(***************************************************************************)
(* Claims about the orchestrator.                                          *)
(***************************************************************************)
\* the two structures of a finished comparison do not differ: the differ of
\* the caller's tools class finds nothing on either side and nothing differing
NoDifference ==
    /\ Len(cmp_structures) = 2
    /\ \A order \in Orderings(DOMAIN cmp_structures[1] \cap DOMAIN cmp_structures[2]) :
         LET diff == Differ(db.mine.dialect, cmp_structures[1], cmp_structures[2], order)
         IN  /\ diff.only_in_mine = {}
             /\ diff.only_in_other = {}
             /\ diff.different_cols = <<>>

C9_WitnessNoDifference ==
    /\ cmp_pc = "done"
    /\ generate_sql
    /\ NoDifference
    /\ files = {}

\* the statement names the column: Oracle and SQLite leave identifiers bare
NamesColumn(statement, col) ==
    \/ Contains(statement, " " \o col \o " ")
    \/ EndsWith(statement, " " \o col)

TableMissing == ~db.mine.catalog.exists \/ ~db.other.catalog.exists

MaxOps == 2

\* statements in the file of one execute_sql_file call
MaxStatements == 2

\* maxconnections of the pool: self.config.maxConnections or 20
maxconnections == 20

Sides == {"mine", "other"}

\* the operations of a strategy that borrow a connection
StrategyOperations ==
    {"list_tables", "describe_Table", "execute_sql", "export_data",
     "execute_sql_file", "get_table_structure"}

ToolEntryPoints ==
    {"list_tables", "describe_table", "compare_table_structure", "execute_sql",
     "export_data", "execute_sql_file"}

\* the strategy operation a tool entry point calls
StrategyOperationOf(t) ==
    CASE t = "list_tables" -> "list_tables"
      [] t = "describe_table" -> "describe_Table"
      [] t = "compare_table_structure" -> "compare_table_with"
      [] t = "execute_sql" -> "execute_sql"
      [] t = "export_data" -> "export_data"
      [] t = "execute_sql_file" -> "execute_sql_file"

\* the text a tool entry point puts before the message of a caught exception
FailurePrefix(t) ==
    CASE t = "list_tables" -> "Failed to list tables: "
      [] t = "describe_table" -> "Failed to describe table: "
      [] t = "compare_table_structure" -> "Table structure comparison failed: "
      [] t = "execute_sql" -> "Failed to execute SQL: "
      [] t = "export_data" -> "Failed to export data: "
      [] t = "execute_sql_file" -> "Failed to execute SQL file: "

\* how a call ends for its caller: a returned string or a raised exception
ReturnedString(text) == [kind |-> "returned", failed |-> FALSE, text |-> text]

RaisedException(message) == [kind |-> "raised", failed |-> TRUE, text |-> message]

\* the try/except of a tool entry point around the strategy call
ToolResult(t, ending) ==
    IF ending.kind = "raised"
    THEN [kind |-> "returned", failed |-> TRUE, text |-> FailurePrefix(t) \o ending.text]
    ELSE ending

\* the try/except of compare_table_with, were an exception of the body let
\* through to the caller
compare_table_with_result_propagating(ending) == ending

\* the try/except of compare_table_with around its whole body
compare_table_with_result(ending) ==
    IF ending.kind = "raised"
    THEN [kind |-> "returned", failed |-> TRUE,
          text |-> "Table structure comparison failed: " \o ending.text]
    ELSE ending

\* close_connection, were it to leave the connection with its borrower
close_connection_keeping(lent) == lent

\* close_connection: the connection the operation borrowed, the last one
\* lent, goes back to the pool
close_connection(lent) == SubSeq(lent, 1, Len(lent) - 1)

\* the ValueError of get_table_structure for a table the strategy lacks
NotFound(strategy) ==
    "Table 'users' does not exist in "
        \o (IF strategy.dialect = "sqlite" THEN "database" ELSE "schema")
        \o " '" \o strategy.database \o "'"

\* where the operation h goes when a step inside its try block raises:
\* execute_sql and execute_sql_file have an except clause that rolls back,
\* the others only the finally clause
OnError_retrying(h) ==
    IF h = "get_table_structure" THEN "columns"
    ELSE IF h = "execute_sql_file" THEN "file"
    ELSE "statement"

OnError_without_rollback(h) == "close"

OnError(h) == IF h \in {"execute_sql", "execute_sql_file"} THEN "rollback" ELSE "close"

\* the first query of the operation h once its cursor is open
FirstQuery(h, dialect) ==
    IF h = "get_table_structure"
    THEN IF dialect = "sqlite" THEN "exists" ELSE "columns"
    ELSE IF h = "execute_sql_file" THEN "file"
    ELSE "statement"

compare_table_with_step_executing(s) ==
    IF s = "mine" THEN "get_connection" ELSE "statement"

\* where compare_table_with goes once get_table_structure returned the
\* structure of side s: to the structure of the other side, then to the
\* statements, the artifact and the report, which use no connection
compare_table_with_step(s) ==
    IF s = "mine" THEN "get_connection" ELSE "generate"

PoolInit ==
    /\ \E d1 \in Dialects, d2 \in Dialects, e1 \in BOOLEAN, e2 \in BOOLEAN :
          strategies = [mine  |-> [dialect |-> d1, database |-> "db_a", has_table |-> e1],
                        other |-> [dialect |-> d2, database |-> "db_b", has_table |-> e2]]
    /\ borrowed = [mine |-> <<>>, other |-> <<>>]
    /\ tool = ""
    /\ operation = ""
    /\ holder = ""
    /\ side = ""
    /\ pc = "idle"
    /\ error = None
    /\ queries = <<>>
    /\ outcome = NoOutcome
    /\ calls = 0
    /\ txlog = <<>>
    /\ file_statements = 0
    /\ NormIdle
    /\ DiffIdle
    /\ SynthIdle
    /\ CmpIdle
    /\ IdxIdle
    /\ FileIdle
    /\ ExportIdle
    /\ LazyIdle

otherVars == <<normVars, diffVars, synthVars, cmpVars, laterVars>>

\* the call ends: its caller gets the ending, through the tool entry point if
\* the call came through one
Ends(ending) ==
    /\ outcome' = IF tool = "direct" THEN ending ELSE ToolResult(tool, ending)
    /\ pc' = "idle"
    /\ error' = None

\* a caller calls a tool entry point, or an operation of a strategy
Call ==
    /\ pc = "idle"
    /\ calls < MaxOps
    /\ \E t \in ToolEntryPoints \cup {"direct"},
          o \in StrategyOperations \cup {"compare_table_with"},
          s \in Sides,
          n \in 0..MaxStatements :
          /\ t # "direct" => o = StrategyOperationOf(t)
          /\ o = "compare_table_with" => s = "mine"
          /\ o # "execute_sql_file" => n = 0
          /\ tool' = t
          /\ operation' = o
          /\ side' = s
          /\ file_statements' = n
          /\ holder' = IF o = "compare_table_with" THEN "get_table_structure" ELSE o
          /\ pc' = IF t = "direct" THEN "get_connection" ELSE "get_data_source"
    /\ calls' = calls + 1
    /\ error' = None
    /\ queries' = <<>>
    /\ txlog' = <<>>
    /\ outcome' = NoOutcome
    /\ UNCHANGED <<strategies, borrowed, otherVars>>

\* manager.get_data_source of a tool entry point
GetDataSource ==
    /\ pc = "get_data_source"
    /\ \/ /\ pc' = "get_connection"
          /\ UNCHANGED <<outcome, error>>
       \/ Ends(RaisedException("unknown data source"))
    /\ UNCHANGED <<strategies, borrowed, tool, operation, holder, side, queries, calls,
                   txlog, file_statements, otherVars>>

\* connection = self.get_connection()
GetConnection ==
    /\ pc = "get_connection"
    /\ \/ /\ Len(borrowed[side]) < maxconnections
          /\ borrowed' = [borrowed EXCEPT ![side] = Append(@, holder)]
          /\ pc' = IF holder = "execute_sql_file" THEN "begin" ELSE "cursor"
          /\ UNCHANGED error
       \/ /\ error' = "connection failed"
          /\ pc' = "raised"
          /\ UNCHANGED borrowed
    /\ UNCHANGED <<strategies, tool, operation, holder, side, queries, outcome, calls,
                   txlog, file_statements, otherVars>>

\* connection.begin() / connection.execute("BEGIN TRANSACTION") of
\* execute_sql_file, before its try block
Begin ==
    /\ pc = "begin"
    /\ \/ /\ pc' = "cursor"
          /\ txlog' = Append(txlog, "begin")
          /\ UNCHANGED error
       \/ /\ error' = "begin failed"
          /\ txlog' = Append(txlog, "begin failed")
          /\ pc' = "raised"
    /\ UNCHANGED <<strategies, borrowed, tool, operation, holder, side, queries, outcome,
                   calls, file_statements, otherVars>>

\* with connection.cursor() as cursor
OpenCursor ==
    /\ pc = "cursor"
    /\ \/ /\ pc' = FirstQuery(holder, strategies[side].dialect)
          /\ UNCHANGED error
       \/ /\ error' = "cursor failed"
          /\ pc' = OnError(holder)
    /\ UNCHANGED <<strategies, borrowed, tool, operation, holder, side, queries, outcome,
                   calls, txlog, file_statements, otherVars>>

\* SQLiteStrategy.get_table_structure: the query on sqlite_master
CheckTableExists ==
    /\ pc = "exists"
    /\ queries' = Append(queries, "exists")
    /\ \/ /\ strategies[side].has_table
          /\ pc' = "columns"
          /\ UNCHANGED error
       \/ /\ ~strategies[side].has_table
          /\ error' = NotFound(strategies[side])
          /\ pc' = OnError(holder)
       \/ /\ error' = "query failed"
          /\ pc' = OnError(holder)
    /\ UNCHANGED <<strategies, borrowed, tool, operation, holder, side, outcome, calls,
                   txlog, file_statements, otherVars>>

\* get_table_structure: the column query; OracleStrategy raises when it
\* returns no row
QueryColumns ==
    /\ pc = "columns"
    /\ queries' = Append(queries, "columns")
    /\ \/ /\ strategies[side].dialect = "oracle" => strategies[side].has_table
          /\ pc' = "close"
          /\ UNCHANGED error
       \/ /\ strategies[side].dialect = "oracle"
          /\ ~strategies[side].has_table
          /\ error' = NotFound(strategies[side])
          /\ pc' = OnError(holder)
       \/ /\ error' = "query failed"
          /\ pc' = OnError(holder)
    /\ UNCHANGED <<strategies, borrowed, tool, operation, holder, side, outcome, calls,
                   txlog, file_statements, otherVars>>

\* the statement of execute_sql, and the queries of list_tables,
\* describe_Table and export_data, inside the with block: execute_sql commits
\* unless the statement is a SELECT
ExecuteStatements ==
    /\ pc = "statement"
    /\ \E is_select \in BOOLEAN :
          /\ holder # "execute_sql" => is_select
          /\ queries' = Append(queries, IF is_select THEN "select" ELSE "statement")
          /\ \/ /\ pc' = IF is_select THEN "close" ELSE "commit"
                /\ UNCHANGED error
             \/ /\ error' = "query failed"
                /\ pc' = OnError(holder)
    /\ UNCHANGED <<strategies, borrowed, tool, operation, holder, side, outcome, calls,
                   txlog, file_statements, otherVars>>

\* execute_sql_file inside the with block: the checks of the path, then the
\* statements of the file one after the other, the first failure ending the
\* loop
ExecuteFile ==
    /\ pc = "file"
    /\ \/ /\ queries = <<>>
          /\ error' = "file not found"
          /\ pc' = OnError(holder)
          /\ UNCHANGED queries
       \/ /\ Len(queries) < file_statements
          /\ queries' = Append(queries, "statement")
          /\ \/ /\ pc' = "file"
                /\ UNCHANGED error
             \/ /\ error' = "query failed"
                /\ pc' = OnError(holder)
       \/ /\ Len(queries) = file_statements
          /\ pc' = "commit"
          /\ UNCHANGED <<queries, error>>
    /\ UNCHANGED <<strategies, borrowed, tool, operation, holder, side, outcome, calls,
                   txlog, file_statements, otherVars>>

\* connection.commit() of execute_sql and execute_sql_file
Commit ==
    /\ pc = "commit"
    /\ \/ /\ pc' = "close"
          /\ txlog' = Append(txlog, "commit")
          /\ UNCHANGED error
       \/ /\ error' = "commit failed"
          /\ txlog' = Append(txlog, "commit failed")
          /\ pc' = OnError(holder)
    /\ UNCHANGED <<strategies, borrowed, tool, operation, holder, side, queries, outcome,
                   calls, file_statements, otherVars>>

\* the except clause of execute_sql and execute_sql_file: connection.rollback(),
\* then raise
Rollback ==
    /\ pc = "rollback"
    /\ \/ /\ error' = IF holder = "execute_sql"
                      THEN "Failed to execute SQL: " \o error
                      ELSE error
          /\ txlog' = Append(txlog, "rollback")
       \/ /\ error' = "rollback failed"
          /\ txlog' = Append(txlog, "rollback failed")
    /\ pc' = "close"
    /\ UNCHANGED <<strategies, borrowed, tool, operation, holder, side, queries, outcome,
                   calls, file_statements, otherVars>>

\* the finally clause: self.close_connection(connection)
CloseConnection ==
    /\ pc = "close"
    /\ borrowed' = [borrowed EXCEPT ![side] = close_connection(@)]
    /\ txlog' = Append(txlog, "close")
    /\ pc' = IF error = None THEN "returned" ELSE "raised"
    /\ UNCHANGED <<strategies, tool, operation, holder, side, error, queries, outcome,
                   calls, file_statements, otherVars>>

\* the operation returns: to compare_table_with, which goes on with the other
\* side or with the statements, or to the caller of the call
StrategyReturns ==
    /\ pc = "returned"
    /\ IF operation = "compare_table_with"
       THEN /\ pc' = compare_table_with_step(side)
            /\ IF side = "mine"
               THEN side' = "other" /\ queries' = <<>> /\ txlog' = <<>>
               ELSE UNCHANGED <<side, queries, txlog>>
            /\ UNCHANGED <<outcome, error>>
       ELSE /\ Ends(ReturnedString("ok"))
            /\ UNCHANGED <<side, queries, txlog>>
    /\ UNCHANGED <<strategies, borrowed, tool, operation, holder, calls, file_statements,
                   otherVars>>

\* the operation raises: into the except clause of compare_table_with, or to
\* the caller of the call
StrategyRaises ==
    /\ pc = "raised"
    /\ IF operation = "compare_table_with"
       THEN Ends(compare_table_with_result(RaisedException(error)))
       ELSE Ends(RaisedException(error))
    /\ UNCHANGED <<strategies, borrowed, tool, operation, holder, side, queries, calls,
                   txlog, file_statements, otherVars>>

\* compare_table_with once it has both structures: generate_alter_statements,
\* save_alter_sql and format_comparison_result, any of which may raise
GenerateAndSave ==
    /\ pc = "generate"
    /\ \E fails \in BOOLEAN :
          Ends(compare_table_with_result(
                   IF fails THEN RaisedException("write failed")
                   ELSE ReturnedString("Table structure comparison: users")))
    /\ UNCHANGED <<strategies, borrowed, tool, operation, holder, side, queries, calls,
                   txlog, file_statements, otherVars>>

PoolNext ==
    \/ Call
    \/ GetDataSource
    \/ GetConnection
    \/ Begin
    \/ OpenCursor
    \/ CheckTableExists
    \/ QueryColumns
    \/ ExecuteStatements
    \/ ExecuteFile
    \/ Commit
    \/ Rollback
    \/ CloseConnection
    \/ StrategyReturns
    \/ StrategyRaises
    \/ GenerateAndSave

PoolSpec == PoolInit /\ [][PoolNext]_vars

(***************************************************************************)
(* Claims about the strategy operations.                                   *)
(***************************************************************************)
\* get_table_structure is about to return or raise
GetTableStructureEnds ==
    holder = "get_table_structure" /\ pc \in {"returned", "raised"}

\* C17: get_table_structure fails with a not-found error when the table does
\* not exist, in every dialect this is decided by an explicit table-existence
\* check and never inferred from the column query returning no row, and a
\* missing table is never returned as a structure.
C17_NotFoundByExplicitCheck ==
    GetTableStructureEnds =>
        /\ ~strategies[side].has_table => pc = "raised"
        /\ (pc = "raised" /\ error = NotFound(strategies[side])) =>
               /\ ~strategies[side].has_table
               /\ queries # <<>>
               /\ queries[Len(queries)] = "exists"

\* connections of the pool of strategy s that operation o holds
HeldBy(s, o) == {i \in 1..Len(borrowed[s]) : borrowed[s][i] = o}

\* C18: compare_table_with never propagates an exception to its caller:
\* whatever fails during introspection, diffing, synthesis or artifact
\* writing, it returns a string beginning 'Table structure comparison
\* failed:'; the tool entry points always return a string and never raise.
C18_NeverPropagates ==
    (pc = "idle" /\ calls > 0) =>
        /\ operation = "compare_table_with" =>
               /\ outcome.kind = "returned"
               /\ outcome.failed =>
                      StartsWith(outcome.text, "Table structure comparison failed:")
        /\ tool # "direct" =>
               /\ outcome.kind = "returned"
               /\ outcome.failed => StartsWith(outcome.text, FailurePrefix(tool))

C18_Witness ==
    /\ pc = "idle"
    /\ tool = "direct"
    /\ operation = "compare_table_with"
    /\ side = "other"
    /\ outcome = [kind |-> "returned", failed |-> TRUE,
                  text |-> "Table structure comparison failed: write failed"]

\* a call through a tool entry point whose strategy operation raised
C18_WitnessTool ==
    /\ pc = "idle"
    /\ tool = "execute_sql"
    /\ outcome = [kind |-> "returned", failed |-> TRUE,
                  text |-> "Failed to execute SQL: Failed to execute SQL: query failed"]

\* C19: every connection acquired by get_table_structure is released before
\* get_table_structure returns or raises, also when a query fails or the
\* table is not found; after any sequence of succeeding and failing
\* comparisons no pool has a connection out that a comparison borrowed.
C19_GetTableStructureReleases ==
    (GetTableStructureEnds \/ pc \in {"idle", "generate"}) =>
        \A s \in Sides : HeldBy(s, "get_table_structure") = {}

C19_Witness ==
    /\ pc = "raised"
    /\ operation = "compare_table_with"
    /\ holder = "get_table_structure"
    /\ side = "other"
    /\ error = NotFound(strategies.other)
    /\ queries # <<>>
    /\ calls = 2
    /\ \A s \in Sides : HeldBy(s, "get_table_structure") = {}

\* C20: every strategy operation releases the connection it acquired before
\* it returns or raises, on every path: no failure between acquiring the
\* connection and the end of the operation leaves the connection borrowed.
C20_EveryOperationReleases ==
    pc \in {"returned", "raised", "idle"} =>
        \A s \in Sides : borrowed[s] = <<>>

\* C21: no operation retries: when a query fails inside get_table_structure,
\* execute_sql or execute_sql_file (or any other operation), the failure goes
\* straight to the caller: as long as the error of the running call is
\* pending, no query is executed, the failed one included, and the call only
\* rolls back, closes and raises.
C21_NoRetry ==
    [][(pc # "idle" /\ error # None) =>
           /\ queries' = queries
           /\ pc' \in {"rollback", "close", "raised", "idle"}]_vars

\* the second statement of a file failed and the call has raised
C21_Witness ==
    /\ pc = "raised"
    /\ holder = "execute_sql_file"
    /\ file_statements = 2
    /\ queries = <<"statement", "statement">>
    /\ StartsWith(error, "query failed")

\* the column query of a comparison's second structure failed
C21_WitnessStructure ==
    /\ pc = "raised"
    /\ operation = "compare_table_with"
    /\ side = "other"
    /\ error = "query failed"
    /\ queries[Len(queries)] = "columns"

\* C22: compare_table_with only reads: during a comparison the only
\* statements executed against either database are the introspection queries
\* of get_table_structure; no generated ALTER statement is executed, no
\* transaction is begun or committed, and generating, saving and reporting
\* use no connection, so neither side's schema is changed.
C22_CompareOnlyReads ==
    operation = "compare_table_with" =>
        /\ \A i \in 1..Len(queries) : queries[i] \in {"exists", "columns"}
        /\ \A i \in 1..Len(txlog) : txlog[i] = "close"
        /\ pc = "generate" => \A s \in Sides : HeldBy(s, "get_table_structure") = {}

\* a comparison that read both structures and returned its report
C22_Witness ==
    /\ pc = "idle"
    /\ operation = "compare_table_with"
    /\ side = "other"
    /\ outcome.kind = "returned"
    /\ ~outcome.failed
    /\ queries # <<>>
    /\ txlog = <<"close">>

\* the catalog of a data source of dialect d declares the column as a
\* character column of length n
DeclaresVarchar(d, column, n) ==
    IF d = "oracle"
    THEN column.data_type = "VARCHAR2" /\ column.data_length = n
    ELSE column.type = "varchar(" \o n \o ")"

\* C23: in every dialect the type string stored in a TableStructure keeps the
\* declared length: a column declared with length 50 on the caller's side
\* and with length 100 on the other side, nullable and default alike, has
\* type strings carrying (50) and (100), and the caller's dialect's
\* comparison classifies it as differing.
C23_LengthKeptAndDiffers ==
    (cmp_pc = "done" /\ Len(cmp_structures) = 2) =>
        \A c \in DOMAIN db.mine.catalog.columns \cap DOMAIN db.other.catalog.columns :
            (/\ DeclaresVarchar(db.mine.dialect, db.mine.catalog.columns[c], "50")
             /\ DeclaresVarchar(db.other.dialect, db.other.catalog.columns[c], "100")) =>
                /\ Contains(cmp_structures[1][c].type, "(50)")
                /\ Contains(cmp_structures[2][c].type, "(100)")
                /\ \A order \in Orderings(DOMAIN cmp_structures[1]
                                              \cap DOMAIN cmp_structures[2]) :
                       c \in Range(Differ(db.mine.dialect, cmp_structures[1],
                                          cmp_structures[2], order).different_cols)

\* the column a generated statement is about: the word after ADD or MODIFY,
\* or after 'Manual modification required for column:' in the SQLite comment
StatementColumn(statement) ==
    CHOOSE c \in ColNames : NamesColumn(statement, c)

RECURSIVE Join(_, _)
\* sep.join(seq)
Join(sep, seq) ==
    IF seq = <<>> THEN ""
    ELSE IF Len(seq) = 1 THEN seq[1]
    ELSE seq[1] \o sep \o Join(sep, Tail(seq))

\* the key of a column in the table OracleStrategy.describe_Table formats:
\* the key types of its P, U and R constraints, and the names of the non-LOB
\* indexes it belongs to, index_order being the order of the rows of the
\* index query
describe_Table_key(column, index_order) ==
    LET index_names == index_order
        key_types == CASE column.constraint_type = "P" -> <<"PRI">>
                       [] column.constraint_type = "U" -> <<"UNI">>
                       [] column.constraint_type = "R" -> <<"MUL">>
                       [] OTHER -> <<>>
    IN  IF key_types # <<>>
        THEN Join(",", key_types)
                 \o (IF index_names # <<>>
                     THEN " (" \o Join(", ", index_names) \o ")" ELSE "")
        ELSE IF index_names # <<>>
        THEN "IDX (" \o Join(", ", index_names) \o ")"
        ELSE ""

\* the indexes the index query of OracleStrategy.describe_Table returns
describe_Table_indexes(column_name, column) ==
    {ix.name : ix \in {x \in column.indexes : x.index_type # "LOB"}}

\* the indexes the index query of SQLiteStrategy.describe_Table returns: it
\* joins pragma_index_info to pragma_index_list ON il.name = ii.name, the
\* name of the index against the name of the indexed column
SQLiteStrategy_describe_Table_indexes(column_name, column) ==
    {ix.name : ix \in {x \in column.indexes : x.name = column_name}}

\* the key of a column in the table SQLiteStrategy.describe_Table formats
SQLiteStrategy_describe_Table_key(column, index_order) ==
    LET index_names == index_order
        key == IF column.pk = 1 THEN "PRI" ELSE ""
    IN  IF key = "PRI"
        THEN IF index_names # <<>>
             THEN key \o " (" \o Join(", ", index_names) \o ")"
             ELSE key
        ELSE IF index_names # <<>>
        THEN "IDX (" \o Join(", ", index_names) \o ")"
        ELSE key

\* the column whose key is introspected
IdxColumnName == "email"

\* the indexes a column may belong to
IndexUniverse ==
    {[name |-> "idx_email", index_type |-> "NORMAL"],
     [name |-> "uq_email", index_type |-> "NORMAL"],
     [name |-> "email", index_type |-> "NORMAL"],
     [name |-> "lob_email", index_type |-> "LOB"]}

\* the catalog entry column, belonging to the indexes
WithIndexes(column, indexes) ==
    [f \in DOMAIN column \cup {"indexes"} |->
        IF f = "indexes" THEN indexes ELSE column[f]]

\* the catalog entries of the column: its constraint, the indexes it belongs
\* to (SQLite has no LOB index)
IdxColumns(dialect) ==
    IF dialect = "oracle"
    THEN {WithIndexes([OracleBaseColumn EXCEPT !.constraint_type = k], I) :
              k \in {None, "P", "U", "R"}, I \in SUBSET IndexUniverse}
    ELSE {WithIndexes([SQLiteBaseColumn EXCEPT !.pk = k], I) :
              k \in {0, 1},
              I \in SUBSET {x \in IndexUniverse : x.index_type # "LOB"}}

IdxInit ==
    /\ idx_dialect \in Dialects
    /\ idx_column \in IdxColumns(idx_dialect)
    /\ idx_op = ""
    /\ idx_key = ""
    /\ idx_pc = "start"
    /\ NormIdle
    /\ DiffIdle
    /\ SynthIdle
    /\ CmpIdle
    /\ PoolIdle
    /\ FileIdle
    /\ ExportIdle
    /\ LazyIdle

\* describe_Table of the table of the column
DescribeTable ==
    /\ idx_pc = "start"
    /\ IF idx_dialect = "oracle"
       THEN \E index_order \in Orderings(describe_Table_indexes(IdxColumnName, idx_column)) :
               idx_key' = describe_Table_key(idx_column, index_order)
       ELSE \E index_order \in Orderings(SQLiteStrategy_describe_Table_indexes(
                                             IdxColumnName, idx_column)) :
               idx_key' = SQLiteStrategy_describe_Table_key(idx_column, index_order)
    /\ idx_op' = "describe_Table"
    /\ idx_pc' = "done"
    /\ UNCHANGED <<idx_dialect, idx_column>>
    /\ UNCHANGED <<normVars, diffVars, synthVars, cmpVars, poolVars, fileVars, exportVars,
                   lazyVars>>

\* get_table_structure of the table of the column
GetTableStructureKey ==
    /\ idx_pc = "start"
    /\ LET catalog == [exists |-> TRUE,
                       columns |-> [c \in {IdxColumnName} |-> idx_column]]
           structure == IF idx_dialect = "oracle"
                        THEN get_table_structure("users", "db_a", catalog, FALSE)
                        ELSE SQLiteStrategy_get_table_structure("users", "db_a", catalog,
                                                                FALSE)
       IN  idx_key' = structure.value[IdxColumnName].key
    /\ idx_op' = "get_table_structure"
    /\ idx_pc' = "done"
    /\ UNCHANGED <<idx_dialect, idx_column>>
    /\ UNCHANGED <<normVars, diffVars, synthVars, cmpVars, poolVars, fileVars, exportVars,
                   lazyVars>>

IdxNext ==
    \/ DescribeTable
    \/ GetTableStructureKey

IdxSpec == IdxInit /\ [][IdxNext]_vars

\* the constraint-derived key of the column
ConstraintKey(dialect, column) ==
    IF dialect = "oracle"
    THEN CASE column.constraint_type = "P" -> "PRI"
           [] column.constraint_type = "U" -> "UNI"
           [] column.constraint_type = "R" -> "MUL"
           [] OTHER -> ""
    ELSE IF column.pk = 1 THEN "PRI" ELSE ""

\* the non-LOB secondary indexes the column belongs to
SecondaryIndexes(column) ==
    {ix.name : ix \in {x \in column.indexes : x.index_type # "LOB"}}

\* C25: the key reported for a column, by get_table_structure as well as by
\* describe_Table: with no index it is the constraint key or empty; with at
\* least one non-LOB secondary index it is 'IDX (name1, name2, ...)' when
\* there is no constraint key, and the constraint key followed by the index
\* names in parentheses when there is one.
C25_IndexAugmentedKey ==
    idx_pc = "done" =>
        LET key == ConstraintKey(idx_dialect, idx_column)
            names == SecondaryIndexes(idx_column)
        IN  IF names = {}
            THEN idx_key = key
            ELSE \E o \in Orderings(names) :
                    idx_key = (IF key = "" THEN "IDX" ELSE key)
                                  \o " (" \o Join(", ", o) \o ")"

\* positions of the calls named in names in the log of connection calls
CallsOf(names) == {i \in 1..Len(txlog) : txlog[i] \in names}

\* C26: execute_sql transaction discipline: for a SELECT commit is never
\* called; for another statement commit is called at most once, only after
\* the statement executed without error, and exactly once when execute_sql
\* returns; when execution or commit failed, rollback is called, no commit
\* takes effect after it, the connection is closed after the rollback, and
\* the error raised is 'Failed to execute SQL: ...'.
C26_ExecuteSqlTransaction ==
    (holder = "execute_sql" /\ pc \in {"returned", "raised"}) =>
        /\ Cardinality(CallsOf({"commit", "commit failed"})) <= 1
        /\ CallsOf({"commit", "commit failed"}) # {} => queries = <<"statement">>
        /\ queries = <<"select">> => CallsOf({"commit", "commit failed"}) = {}
        /\ (pc = "returned" /\ queries = <<"statement">>) => txlog = <<"commit", "close">>
        /\ (pc = "raised" /\ queries # <<>>) =>
               /\ CallsOf({"commit"}) = {}
               /\ \E r \in CallsOf({"rollback", "rollback failed"}) :
                      /\ \A c \in CallsOf({"commit", "commit failed"}) : c < r
                      /\ \E k \in CallsOf({"close"}) : r < k
               /\ StartsWith(error, "Failed to execute SQL: ")

MaxLines == 3

RECURSIVE Split(_, _)
\* s.split(sep) for a separator of one character
Split(s, sep) ==
    LET at == Occurrences(s, sep)
    IN  IF at = {} THEN <<s>>
        ELSE LET i == CHOOSE b \in at : \A c \in at : b <= c
             IN  <<SubSeq(s, 1, i - 1)>> \o Split(SubSeq(s, i + 1, Len(s)), sep)

\* the statements execute_sql_file passes to cursor.execute for a file with
\* this content: the fragments between semicolons, stripped, except the empty
\* ones and the ones that start with '--'
executed_statements(content) ==
    LET fragments == Split(content, ";")
        stripped == [i \in 1..Len(fragments) |-> Strip(fragments[i])]
    IN  SelectSeq(stripped,
                  LAMBDA sql_stripped : sql_stripped # "" /\ ~StartsWith(sql_stripped, "--"))

\* the lines a file is written from: comment lines, one of them the comment
\* SQLiteTools.generate_modify_column_sql returns, and statements ending in
\* a semicolon
FileLineKinds ==
    {"-- schema changes",
     SQLiteTools_generate_modify_column_sql("users", "name",
         [type |-> "TEXT", nullable |-> "YES", default |-> "NULL"]),
     "ALTER TABLE users ADD COLUMN email TEXT;",
     "DELETE FROM users;"}

\* the files of at most MaxLines lines
FileLines == UNION {[1..n -> FileLineKinds] : n \in 0..MaxLines}

FileInit ==
    /\ file_lines \in FileLines
    /\ file_content = Join("\n", file_lines)
    /\ executed = <<>>
    /\ file_pc = "start"
    /\ NormIdle
    /\ DiffIdle
    /\ SynthIdle
    /\ CmpIdle
    /\ PoolIdle
    /\ IdxIdle
    /\ ExportIdle
    /\ LazyIdle

\* execute_sql_file(path) for the path of the file, every statement
\* succeeding
ExecuteSqlFile ==
    /\ file_pc = "start"
    /\ executed' = executed_statements(file_content)
    /\ file_pc' = "done"
    /\ UNCHANGED <<file_lines, file_content>>
    /\ UNCHANGED <<normVars, diffVars, synthVars, cmpVars, poolVars, idxVars, exportVars,
                   lazyVars>>

FileNext == ExecuteSqlFile

FileSpec == FileInit /\ [][FileNext]_vars

\* the SQL statements of the file, in file order: its lines that are no
\* comment, without the closing semicolon
StatementsOfFile ==
    LET sql == SelectSeq(file_lines, LAMBDA line : ~StartsWith(line, "--"))
    IN  [i \in 1..Len(sql) |-> SubSeq(sql[i], 1, Len(sql[i]) - 1)]

\* C28: for a single .sql file, execute_sql_file executes every statement of
\* the file exactly once and in file order; only empty fragments and '--'
\* comments are skipped, so a statement on the line after a '--' comment is
\* executed.
C28_EveryStatementExecuted ==
    file_pc = "done" => executed = StatementsOfFile

(***************************************************************************)
(* export_data: the batches it reads and the files it writes.              *)
(***************************************************************************)
\* batches of the largest exported table
MaxBatches == 2

\* batch_size of export_data
batch_size == 1000

\* the rows of the table are 1..row_count, numbered in insertion order.  The
\* batch query has no ORDER BY, so the database returns the rows in an order
\* of its choosing, for each query anew: here the insertion order or its
\* reverse
ScanOrders == {"forward", "backward"}

\* the rows 'SELECT * FROM t OFFSET offset ROWS FETCH NEXT size ROWS ONLY'
\* (SQLite: LIMIT size OFFSET offset) returns from a table of count rows
\* scanned in the order scan, as the interval first..last
BatchRows(count, offset, size, scan) ==
    LET n == IF count - offset < size THEN count - offset ELSE size
    IN  IF n <= 0 THEN [first |-> 1, last |-> 0]
        ELSE IF scan = "forward"
        THEN [first |-> offset + 1, last |-> offset + n]
        ELSE [first |-> count - offset - n + 1, last |-> count - offset]

\* file_count = (count + batch_size - 1) // batch_size
file_count(count) == (count + batch_size - 1) \div batch_size

ExportInit ==
    /\ row_count \in 0..(MaxBatches * batch_size)
    /\ batch_index = 0
    /\ batches = <<>>
    /\ export_files = <<>>
    /\ export_result = ""
    /\ export_pc = "start"
    /\ NormIdle
    /\ DiffIdle
    /\ SynthIdle
    /\ CmpIdle
    /\ PoolIdle
    /\ IdxIdle
    /\ FileIdle
    /\ LazyIdle

\* export_data('users') up to the count query: a table without rows is
\* reported and nothing is written
CountRows ==
    /\ export_pc = "start"
    /\ IF row_count = 0
       THEN /\ export_result' = "Table 'users' has no data"
            /\ export_pc' = "done"
       ELSE /\ export_pc' = "batch"
            /\ UNCHANGED export_result
    /\ UNCHANGED <<row_count, batch_index, batches, export_files>>
    /\ UNCHANGED <<normVars, diffVars, synthVars, cmpVars, poolVars, idxVars, fileVars,
                   lazyVars>>

\* one round of the loop: the batch query at offset i * batch_size, and the
\* file of the batch unless the batch is empty
ExportBatch ==
    /\ export_pc = "batch"
    /\ batch_index < file_count(row_count)
    /\ \E scan \in ScanOrders :
          LET offset == batch_index * batch_size
              rows == BatchRows(row_count, offset, batch_size, scan)
          IN  /\ batches' = Append(batches, [offset |-> offset, rows |-> rows])
              /\ export_files' =
                     IF rows.last < rows.first THEN export_files
                     ELSE Append(export_files,
                                 "users_" \o ToString(batch_index) \o ".sql")
    /\ batch_index' = batch_index + 1
    /\ UNCHANGED <<row_count, export_result, export_pc>>
    /\ UNCHANGED <<normVars, diffVars, synthVars, cmpVars, poolVars, idxVars, fileVars,
                   lazyVars>>

\* the loop is over: export_data returns
ExportReturns ==
    /\ export_pc = "batch"
    /\ batch_index = file_count(row_count)
    /\ export_result' = "Exported " \o ToString(row_count) \o " rows to export_data."
    /\ export_pc' = "done"
    /\ UNCHANGED <<row_count, batch_index, batches, export_files>>
    /\ UNCHANGED <<normVars, diffVars, synthVars, cmpVars, poolVars, idxVars, fileVars,
                   lazyVars>>

ExportNext ==
    \/ CountRows
    \/ ExportBatch
    \/ ExportReturns

ExportSpec == ExportInit /\ [][ExportNext]_vars

\* ceil(count / 1000)
CeilBatches(count) == CHOOSE k \in 0..count : k * 1000 >= count /\ (k - 1) * 1000 < count

\* the row belongs to the batch
InBatch(row, batch) == batch.rows.first <= row /\ row <= batch.rows.last

\* C29: export_data batching: for count > 0 it issues ceil(count/1000) batch
\* queries at offsets 0, 1000, 2000, ..., each of at most 1000 rows, the
\* batches pairwise disjoint and together covering every row exactly once,
\* batch i written to users_<i>.sql, at most ceil(count/1000) files; for a
\* table of 0 rows no file is written and the result says it has no data.
C29_ExportBatches ==
    export_pc = "done" =>
        IF row_count = 0
        THEN /\ batches = <<>>
             /\ export_files = <<>>
             /\ export_result = "Table 'users' has no data"
        ELSE /\ Len(batches) = CeilBatches(row_count)
             /\ \A i \in 1..Len(batches) :
                    /\ batches[i].offset = (i - 1) * 1000
                    /\ batches[i].rows.last - batches[i].rows.first + 1 <= 1000
             /\ \A row \in 1..row_count :
                    Cardinality({i \in 1..Len(batches) : InBatch(row, batches[i])}) = 1
             /\ Len(export_files) <= CeilBatches(row_count)
             /\ \A i \in 1..Len(export_files) :
                    export_files[i] = "users_" \o ToString(i - 1) \o ".sql"

(***************************************************************************)
(* The lazily created pool of a strategy instance, with several threads    *)
(* calling create_pool and get_connection.  Neither method takes a lock: a *)
(* thread may be suspended between the test of self.pool and the           *)
(* assignment.                                                             *)
(***************************************************************************)
\* calling threads
MaxThreads == 2

Threads == 1..MaxThreads

LazyInit ==
    /\ pool = [s \in Sides |-> None]
    /\ created = [s \in Sides |-> <<>>]
    /\ thread_pc = [t \in Threads |-> "idle"]
    /\ thread_on = [t \in Threads |-> [instance |-> "mine", call |-> ""]]
    /\ handed = [t \in Threads |-> None]
    /\ NormIdle
    /\ DiffIdle
    /\ SynthIdle
    /\ CmpIdle
    /\ PoolIdle
    /\ IdxIdle
    /\ FileIdle
    /\ ExportIdle

lazyOthers == <<normVars, diffVars, synthVars, cmpVars, poolVars, idxVars, fileVars,
                exportVars>>

\* a thread calls get_connection or create_pool of a strategy instance
CallStrategy ==
    \E t \in Threads, s \in Sides, c \in {"get_connection", "create_pool"} :
        /\ thread_pc[t] = "idle"
        /\ thread_on' = [thread_on EXCEPT ![t] = [instance |-> s, call |-> c]]
        /\ thread_pc' = [thread_pc EXCEPT ![t] = c]
        /\ handed' = [handed EXCEPT ![t] = None]
        /\ UNCHANGED <<pool, created, lazyOthers>>

\* get_connection: if not self.pool: self.create_pool()
TestPoolInGetConnection ==
    \E t \in Threads :
        /\ thread_pc[t] = "get_connection"
        /\ thread_pc' = [thread_pc EXCEPT ![t] =
               IF pool[thread_on[t].instance] = None THEN "create_pool" ELSE "connection"]
        /\ UNCHANGED <<pool, created, thread_on, handed, lazyOthers>>

\* create_pool: if not self.pool
TestPoolInCreatePool ==
    \E t \in Threads :
        /\ thread_pc[t] = "create_pool"
        /\ thread_pc' = [thread_pc EXCEPT ![t] =
               IF pool[thread_on[t].instance] = None THEN "construct"
               ELSE IF thread_on[t].call = "get_connection" THEN "connection"
               ELSE "idle"]
        /\ UNCHANGED <<pool, created, thread_on, handed, lazyOthers>>

\* create_pool: self.pool = PooledDB(...)
ConstructPool ==
    \E t \in Threads :
        LET s == thread_on[t].instance
            new == s \o "_pool_" \o ToString(Len(created[s]) + 1)
        IN  /\ thread_pc[t] = "construct"
            /\ pool' = [pool EXCEPT ![s] = new]
            /\ created' = [created EXCEPT ![s] = Append(@, new)]
            /\ thread_pc' = [thread_pc EXCEPT ![t] =
                   IF thread_on[t].call = "get_connection" THEN "connection" ELSE "idle"]
            /\ UNCHANGED <<thread_on, handed, lazyOthers>>

\* get_connection: return self.pool.connection()
TakeConnection ==
    \E t \in Threads :
        /\ thread_pc[t] = "connection"
        /\ handed' = [handed EXCEPT ![t] = pool[thread_on[t].instance]]
        /\ thread_pc' = [thread_pc EXCEPT ![t] = "idle"]
        /\ UNCHANGED <<pool, created, thread_on, lazyOthers>>

LazyNext ==
    \/ CallStrategy
    \/ TestPoolInGetConnection
    \/ TestPoolInCreatePool
    \/ ConstructPool
    \/ TakeConnection

LazySpec == LazyInit /\ [][LazyNext]_vars

\* C30: each strategy instance owns at most one pool over its lifetime: the
\* pool is created on the first create_pool or get_connection, every later
\* call uses that same pool, also when several threads call get_connection
\* on the instance at once, and no pool serves two instances.
C30_OnePoolPerInstance ==
    \A s \in Sides :
        /\ Len(created[s]) <= 1
        /\ pool[s] # None => created[s] = <<pool[s]>>
        /\ \A t \in Threads :
               (handed[t] # None /\ thread_on[t].instance = s) =>
                   /\ created[s] # <<>>
                   /\ handed[t] = created[s][1]
                   /\ \A o \in Sides \ {s} : handed[t] \notin Range(created[o])

=============================================================================
